---- MODULE Spec2Model ----
(***************************************************************************)
(* A model of the redes MIDI sequencer core: the SongLang compiler         *)
(* (src/src/songlang/compiler.rs), the track instruction set               *)
(* (src/src/track/instructions.rs) and the track cursor VM                 *)
(* (src/src/track/cursor.rs).                                              *)
(*                                                                         *)
(* Conventions.                                                            *)
(*  - Option<T> is a sequence of length at most one: None is <<>>,         *)
(*    Some(v) is <<v>>.                                                    *)
(*  - A Duration is its number of nanoseconds.                             *)
(*  - A Vec is a sequence; Rust index i is TLA+ index i + 1.  Instruction  *)
(*    indices (instruction_pointer, Jump targets, label locations) keep    *)
(*    the Rust, zero-based, values.                                        *)
(*  - A HashMap is a function on the set of its keys.                      *)
(***************************************************************************)
EXTENDS Integers, Sequences, FiniteSets, TLC

None == <<>>
Some(v) == <<v>>
IsSome(o) == Len(o) = 1
Unwrap(o) == o[1]
UnwrapOr(o, d) == IF IsSome(o) THEN o[1] ELSE d
\* Option::or
OrElse(o, p) == IF IsSome(o) THEN o ELSE p

Min(a, b) == IF a < b THEN a ELSE b

\* the error slot of a result that carries none
NoError == [kind |-> "none"]

(***************************************************************************)
(* Bounds of the model.                                                    *)
(***************************************************************************)
\* longest flat asm program
MaxItems == 3
\* longest loop body
MaxBody == 2
\* largest loop repetition count
MaxReps == 3
\* longest program of header attributes and instructions
MaxHeader == 3
\* step_until is called with end = 0 .. MaxEndTicks default ticks
MaxEndTicks == 4
\* the history of yielded events is recorded up to this length
MaxOut == 8
\* the history of jump reaches is recorded up to this count
MaxReach == 6
\* steps granted to the reference run of one step_until on a fresh cursor
MaxFuel == 60
\* the count of yielded messages is recorded up to this number
MaxSent == 20

(***************************************************************************)
(* src/src/utils.rs, src/src/track/instructions.rs : numbers               *)
(***************************************************************************)
ONE_NZU16 == 1
U16_MAX == 65535
\* usize::max_value(), the forward-jump placeholder.  TLC integers are
\* 32 bits wide; the model only ever compares the value with track indices.
USIZE_MAX == 2147483647

DefaultBpm == [beats_per_minute |-> 120, ticks_per_beat |-> 32]

\* NANOS_PER_MINUTE = 60 * 1000 * 1000 * 1000 does not fit a TLC integer:
\* the quotient NANOS_PER_MINUTE / beats_per_minute is computed by long
\* division over the factors 60 * 1000, 1000, 1000.  It is exact for every
\* beats_per_minute in 1..65535 and representable from 28 upwards.
nanos_per_beat(b) ==
    LET bpm == b.beats_per_minute
        q0 == (60 * 1000) \div bpm
        r0 == (60 * 1000) % bpm
        q1 == (r0 * 1000) \div bpm
        r1 == (r0 * 1000) % bpm
        q2 == (r1 * 1000) \div bpm
    IN  q0 * 1000 * 1000 + q1 * 1000 + q2

nanos_per_tick(b) == nanos_per_beat(b) \div b.ticks_per_beat

tick_duration(b) == nanos_per_tick(b)

clamped_to_nonzerou16(raw) ==
    IF raw > U16_MAX THEN U16_MAX
    ELSE IF raw = 0 THEN 1
    ELSE raw

\* WaitTime values
Clock(d) == [kind |-> "Clock", n |-> d]
Beats(n) == [kind |-> "Beats", n |-> n]
Ticks(n) == [kind |-> "Ticks", n |-> n]

\* WaitTime::as_ticks.  The Beats product is a u16 multiplication.
as_ticks(w, bpm_info) ==
    CASE w.kind = "Ticks" -> w.n
      [] w.kind = "Clock" -> clamped_to_nonzerou16(w.n \div tick_duration(bpm_info))
      [] w.kind = "Beats" ->
            clamped_to_nonzerou16((w.n * bpm_info.ticks_per_beat) % (U16_MAX + 1))

\* as_duration keeping whole microseconds only
as_duration_micros(w, bpm_info) ==
    CASE w.kind = "Beats" -> tick_duration(bpm_info) * (bpm_info.ticks_per_beat * w.n)
      [] w.kind = "Clock" -> w.n
      [] w.kind = "Ticks" -> ((tick_duration(bpm_info) * w.n) \div 1000) * 1000

\* WaitTime::as_duration
as_duration(w, bpm_info) ==
    CASE w.kind = "Beats" -> tick_duration(bpm_info) * (bpm_info.ticks_per_beat * w.n)
      [] w.kind = "Clock" -> w.n
      [] w.kind = "Ticks" -> tick_duration(bpm_info) * w.n

(***************************************************************************)
(* src/src/track/instructions.rs : TrackEvent                              *)
(***************************************************************************)
SendMessage(m, p) == [op |-> "SendMessage", message |-> m, port |-> p]
Wait(w) == [op |-> "Wait", time |-> w]
SetBpm(b) == [op |-> "SetBpm", bpm |-> b]
Jump(t, c) == [op |-> "Jump", target |-> t, count |-> c]
End == [op |-> "End"]

\* EventTrack::get : Option<TrackEvent>
TrackGet(track, idx) ==
    IF idx >= 0 /\ idx < Len(track) THEN Some(track[idx + 1]) ELSE None

\* EventTrack::finite_jumps : the (index, starting count) pairs of the
\* counted jumps, as a map
finite_jumps(track) ==
    [idx \in {i \in 0 .. Len(track) - 1 :
                 track[i + 1].op = "Jump" /\ IsSome(track[i + 1].count)}
        |-> Unwrap(track[idx + 1].count)]

(***************************************************************************)
(* src/src/track/cursor.rs : JumpCounts                                    *)
(***************************************************************************)
JumpCounts_from_iter(track_len, itr) ==
    [max_target |-> track_len - 1, data |-> itr]

\* do_jump falling through without restoring the counter
do_jump_norestore(jc, idx, target, count) ==
    IF target > jc.max_target
    THEN [ok |-> FALSE, err |-> [kind |-> "BadJumpTarget", target |-> target], jc |-> jc]
    ELSE IF ~IsSome(count)
    THEN [ok |-> TRUE, pc |-> target, jc |-> jc]
    ELSE IF idx \notin DOMAIN jc.data
    THEN [ok |-> FALSE, err |-> [kind |-> "JumpIdxNotFound", target |-> idx], jc |-> jc]
    ELSE IF jc.data[idx] = 0
    THEN [ok |-> TRUE, pc |-> idx + 1, jc |-> jc]
    ELSE [ok |-> TRUE, pc |-> target,
          jc |-> [jc EXCEPT !.data[idx] = jc.data[idx] - 1]]

\* do_jump looking at the count before the bounds of the target
do_jump_count_first(jc, idx, target, count) ==
    IF ~IsSome(count)
    THEN [ok |-> TRUE, pc |-> target, jc |-> jc]
    ELSE IF target > jc.max_target
    THEN [ok |-> FALSE, err |-> [kind |-> "BadJumpTarget", target |-> target], jc |-> jc]
    ELSE IF idx \notin DOMAIN jc.data
    THEN [ok |-> FALSE, err |-> [kind |-> "JumpIdxNotFound", target |-> idx], jc |-> jc]
    ELSE IF jc.data[idx] = 0
    THEN [ok |-> TRUE, pc |-> idx + 1,
          jc |-> [jc EXCEPT !.data[idx] = Unwrap(count)]]
    ELSE [ok |-> TRUE, pc |-> target,
          jc |-> [jc EXCEPT !.data[idx] = jc.data[idx] - 1]]

\* JumpCounts::do_jump : Result<usize, StepError> and the updated counters
do_jump(jc, idx, target, count) ==
    IF target > jc.max_target
    THEN [ok |-> FALSE, err |-> [kind |-> "BadJumpTarget", target |-> target], jc |-> jc]
    ELSE IF ~IsSome(count)
    THEN [ok |-> TRUE, pc |-> target, jc |-> jc]
    ELSE IF idx \notin DOMAIN jc.data
    THEN [ok |-> FALSE, err |-> [kind |-> "JumpIdxNotFound", target |-> idx], jc |-> jc]
    ELSE IF jc.data[idx] = 0
    THEN [ok |-> TRUE, pc |-> idx + 1,
          jc |-> [jc EXCEPT !.data[idx] = Unwrap(count)]]
    ELSE [ok |-> TRUE, pc |-> target,
          jc |-> [jc EXCEPT !.data[idx] = jc.data[idx] - 1]]

\* a reset that leaves the counters as they are
JumpCounts_reset_keep(jc, track) ==
    [ok |-> TRUE, jc |-> jc]

\* JumpCounts::reset : every stored counter is set to the count of the
\* instruction at its index; an index that no longer holds a counted jump
\* is an error

JumpCounts_reset(jc, track) ==
    IF \E idx \in DOMAIN jc.data :
          LET evt == TrackGet(track, idx)
          IN  ~(IsSome(evt) /\ Unwrap(evt).op = "Jump" /\ IsSome(Unwrap(evt).count))
    THEN [ok |-> FALSE, jc |-> jc]
    ELSE [ok |-> TRUE,
          jc |-> [jc EXCEPT !.data =
                     [idx \in DOMAIN jc.data |-> Unwrap(track[idx + 1].count)]]]

(***************************************************************************)
(* src/src/track/cursor.rs : TrackCursor                                   *)
(***************************************************************************)
TrackCursor_new(data) ==
    [instruction_pointer |-> 0,
     cur_bpm |-> DefaultBpm,
     cur_time |-> 0,
     cur_ticks |-> 0,
     jump_counts |-> JumpCounts_from_iter(Len(data), finite_jumps(data)),
     data |-> data]

StepEnd == [kind |-> "End"]
StepContinue == [kind |-> "Continue"]
StepMessage(t, p, m) == [kind |-> "Message", time |-> t, port |-> p, msg |-> m]

\* TrackCursor::step : the cursor after the step and Result<StepOutput,
\* StepError>, one operator per match arm.
StepOk(out, c) == [ok |-> TRUE, out |-> out, c |-> c, err |-> NoError]
StepErr(e, c) == [ok |-> FALSE, out |-> StepContinue, c |-> c, err |-> e]

\* End stepping the instruction pointer like every other instruction
step_End_advance(c) ==
    StepOk(StepEnd, [c EXCEPT !.instruction_pointer = c.instruction_pointer + 1])

\* End rewinding the instruction pointer to the start of the track
step_End_restart(c) ==
    StepOk(StepEnd, [c EXCEPT !.instruction_pointer = 0])

\* the instruction pointer is not stepped
step_End(c) == StepOk(StepEnd, c)

step_SetBpm(c, new_info) ==
    StepOk(StepContinue,
           [c EXCEPT !.cur_bpm = new_info,
                     !.instruction_pointer = c.instruction_pointer + 1])

step_SendMessage(c, message, port) ==
    StepOk(StepMessage(c.cur_time, port, message),
           [c EXCEPT !.instruction_pointer = c.instruction_pointer + 1])

\* Wait assigning the wait to the clock instead of adding it
step_Wait_assign(c, time, overflow_checks) ==
    StepOk(StepContinue,
           [c EXCEPT !.instruction_pointer = c.instruction_pointer + 1,
                     !.cur_time = as_duration(time, c.cur_bpm),
                     !.cur_ticks = (c.cur_ticks + as_ticks(time, c.cur_bpm))
                                      % (U16_MAX + 1)])

\* cur_ticks is a u16: with overflow checks (a debug build) an overflowing
\* += panics, without them it wraps
step_Wait(c, time, overflow_checks) ==
    LET ticks == c.cur_ticks + as_ticks(time, c.cur_bpm)
    IN  IF ticks > U16_MAX /\ overflow_checks
        THEN StepErr([kind |-> "Overflow"],
                     [c EXCEPT !.instruction_pointer = c.instruction_pointer + 1,
                               !.cur_time = c.cur_time + as_duration(time, c.cur_bpm)])
        ELSE StepOk(StepContinue,
                    [c EXCEPT !.instruction_pointer = c.instruction_pointer + 1,
                              !.cur_time = c.cur_time + as_duration(time, c.cur_bpm),
                              !.cur_ticks = ticks % (U16_MAX + 1)])

step_Jump(c, target, count) ==
    LET r == do_jump(c.jump_counts, c.instruction_pointer, target, count)
    IN  IF r.ok
        THEN StepOk(StepContinue,
                    [c EXCEPT !.instruction_pointer = r.pc, !.jump_counts = r.jc])
        ELSE StepErr(r.err, c)

step(c, overflow_checks) ==
    LET next_evt == TrackGet(c.data, c.instruction_pointer)
    IN  IF ~IsSome(next_evt)
        THEN StepErr([kind |-> "BadInstrPointer", ip |-> c.instruction_pointer], c)
        ELSE LET evt == Unwrap(next_evt) IN
          CASE evt.op = "End" -> step_End(c)
            [] evt.op = "SetBpm" -> step_SetBpm(c, evt.bpm)
            [] evt.op = "SendMessage" -> step_SendMessage(c, evt.message, evt.port)
            [] evt.op = "Wait" -> step_Wait(c, evt.time, overflow_checks)
            [] evt.op = "Jump" -> step_Jump(c, evt.target, evt.count)

\* the test `self.cur_time > end` that ends a step_until iterator
past_end_inclusive(cur_time, end) == cur_time >= end

past_end(cur_time, end) == cur_time > end

\* TrackCursor::reset
reset(c) ==
    LET r == JumpCounts_reset(c.jump_counts, c.data)
    IN  [ok |-> r.ok,
         c |-> [c EXCEPT !.instruction_pointer = 0,
                         !.cur_bpm = DefaultBpm,
                         !.cur_time = 0,
                         !.cur_ticks = 0,
                         !.jump_counts = r.jc]]

(***************************************************************************)
(* src/src/model.rs, src/src/midi.rs : notes                               *)
(***************************************************************************)
\* NoteClass is its as_u8 number, C = 0 .. B = 11.
\* Rust's % truncates towards zero.
RustRem(a, b) == IF a < 0 THEN 0 - ((0 - a) % b) ELSE a % b

\* NoteClass::shift
shift(note, offset) ==
    LET raw == note + offset
    IN  IF raw < 0 THEN (12 + RustRem(raw, 12)) % 12 ELSE raw % 12

\* NoteKey: the root and the set of classes in the key
NoteKey_major(root) ==
    [root |-> root,
     notes |-> {root, shift(root, 2), shift(root, 4), shift(root, 5),
                shift(root, 7), shift(root, 9), shift(root, 11)}]

\* a minor key that keeps the major seventh
NoteKey_minor_harmonic(root) ==
    LET m == NoteKey_major(root)
        s1 == (m.notes \ {shift(root, 4)}) \cup {shift(root, 3)}
        s2 == (s1 \ {shift(root, 9)}) \cup {shift(root, 8)}
    IN  [root |-> root, notes |-> s2]

NoteKey_minor(root) ==
    LET m == NoteKey_major(root)
        s1 == (m.notes \ {shift(root, 4)}) \cup {shift(root, 3)}
        s2 == (s1 \ {shift(root, 9)}) \cup {shift(root, 8)}
        s3 == (s2 \ {shift(root, 11)}) \cup {shift(root, 10)}
    IN  [root |-> root, notes |-> s3]

\* NoteKey::equivalent : the note bits compared, the root bits masked out
NoteKey_equivalent(key, other) == key.notes = other.notes

\* NoteKey::root
NoteKey_root(key) == key.root

NoteKey_len(key) == Cardinality(key.notes)

\* the inner `while !self.contains(note.shift(1))` loop of NoteKey::nth
RECURSIVE NextInKey(_, _)
NextInKey(key, note) ==
    IF shift(note, 1) \in key.notes THEN shift(note, 1)
    ELSE NextInKey(key, shift(note, 1))

RECURSIVE NthFrom(_, _, _, _)
NthFrom(key, note, stp, mapped_step) ==
    IF stp >= mapped_step THEN note
    ELSE NthFrom(key, NextInKey(key, note), stp + 1, mapped_step)

\* nth without the `self.len() +` of the negative branch
NoteKey_nth_truncating(key, keystep) ==
    NthFrom(key, key.root, 0, RustRem(keystep, NoteKey_len(key)))

\* NoteKey::nth
NoteKey_nth(key, keystep) ==
    LET mapped_step == IF keystep < 0
                       THEN NoteKey_len(key) + RustRem(keystep, NoteKey_len(key))
                       ELSE keystep % NoteKey_len(key)
    IN  NthFrom(key, key.root, 0, mapped_step)

\* MidiNote::from_note_octave (u8 arithmetic, no overflow up to octave 9)
from_note_octave(note, octave) == (octave + 1) * 12 + note

\* MidiNote::wrapping_add
wrapping_add(raw, steps) ==
    LET n0 == raw + steps
        n1 == IF n0 < 0 THEN n0 + 128 ELSE n0
    IN  IF n1 >= 128 THEN n1 - 128 ELSE n1

\* MidiMessage::from(NoteOn::new(channel, note, vel))
NoteOn(channel, note, vel) ==
    [kind |-> "NoteOn", channel |-> channel, note |-> note, velocity |-> vel]

(***************************************************************************)
(* src/src/songlang/ast.rs : the compiler's input                          *)
(***************************************************************************)
LangLoop(expr, repititions) ==
    [type |-> "Loop", expr |-> expr, repititions |-> repititions]
LangNotePress(data) == [type |-> "NotePress", data |-> data]
LangWait(dur) == [type |-> "Wait", dur |-> dur]
\* a SongAttribute is its variant and the variant's payload, kept under the
\* variant's name
LangSetAttribute(kind, value) ==
    [type |-> "SetAttribute", attr |-> kind, value |-> [k \in {kind} |-> value]]
AttrValue(item) == item.value[item.attr]
AsmWait(dur) == [type |-> "Asm", cmd |-> "Wait", dur |-> dur]
AsmSend(message, port) == [type |-> "Asm", cmd |-> "Send", message |-> message, port |-> port]
AsmJump(label, count) == [type |-> "Asm", cmd |-> "Jump", label |-> label, count |-> count]
AsmSetBpm(bpm) == [type |-> "Asm", cmd |-> "SetBpm", bpm |-> bpm]
AsmLabel(label) == [type |-> "Asm", cmd |-> "Label", label |-> label]

\* likewise a PressModifier
PressModifier(kind, value) == [kind |-> kind, value |-> [k \in {kind} |-> value]]
ChordPress(root, octave, kind, modifiers) ==
    [root |-> root, octave |-> octave, kind |-> kind, modifiers |-> modifiers]
PressLine(presses, modifiers) == [presses |-> presses, modifiers |-> modifiers]

\* PressLine::port / channel / velocity / duration and the same on
\* ChordPress: the value of the first modifier of the kind (find_map)
RECURSIVE FindModifier(_, _)
FindModifier(modifiers, kind) ==
    IF modifiers = <<>> THEN None
    ELSE IF Head(modifiers).kind = kind THEN Some(Head(modifiers).value[kind])
    ELSE FindModifier(Tail(modifiers), kind)

(***************************************************************************)
(* src/src/songlang/compiler.rs                                            *)
(***************************************************************************)
Ok(cs) == [ok |-> TRUE, cs |-> cs, err |-> NoError]
Err(cs, e) == [ok |-> FALSE, cs |-> cs, err |-> e]

\* SongAttributes::default()
SongAttributes_new ==
    [press_dur |-> None, press_vel |-> None, bpm |-> None,
     channel |-> None, outport |-> None]

default_duration(attrs) == UnwrapOr(attrs.press_dur, Ticks(ONE_NZU16))
default_velocity(attrs) == UnwrapOr(attrs.press_vel, 90)
\* default_channel not reading the header attribute
default_channel_ignore(attrs) == 0
default_channel(attrs) == UnwrapOr(attrs.channel, 0)
default_port(attrs) == attrs.outport

\* the field of SongAttributes a SongAttribute kind is stored in
AttrField(kind) ==
    CASE kind = "DefaultDuration" -> "press_dur"
      [] kind = "DefaultPressVelocity" -> "press_vel"
      [] kind = "Signature" -> "bpm"
      [] kind = "DefaultPort" -> "outport"
      [] kind = "DefaultChannel" -> "channel"

\* SongAttributes::push_attribute : Result<SongAttributes, CompilerError>
push_attribute(attrs, item) ==
    LET f == AttrField(item.attr)
    IN  IF IsSome(attrs[f])
        THEN [ok |-> FALSE, attrs |-> attrs,
              err |-> [kind |-> "DuplicateAttributes", attr |-> item.attr,
                       prev |-> Unwrap(attrs[f]), new |-> AttrValue(item)]]
        ELSE [ok |-> TRUE, attrs |-> [attrs EXCEPT ![f] = Some(AttrValue(item))],
              err |-> NoError]

\* Compiler::new()
Compiler_new ==
    [attributes |-> SongAttributes_new,
     tick_spans |-> <<>>,
     jump_fix_backlog |-> <<>>,
     ports |-> <<>>,
     labels |-> <<>>,
     track |-> <<>>]

\* port_label_to_idx binding the label to ports.len() at every reference
port_label_to_idx_rebind(cs, port) ==
    LET defaultidx == Cardinality(DOMAIN cs.ports)
    IN  [port |-> defaultidx,
         cs |-> [cs EXCEPT !.ports =
                    [l \in DOMAIN cs.ports \cup {port} |->
                        IF l = port THEN defaultidx ELSE cs.ports[l]]]]

\* Compiler::port_label_to_idx : the port, and the compiler with the label
\* bound to ports.len() when it was not bound
port_label_to_idx(cs, port) ==
    IF port \in DOMAIN cs.ports
    THEN [port |-> cs.ports[port], cs |-> cs]
    ELSE LET defaultidx == Cardinality(DOMAIN cs.ports)
         IN  [port |-> defaultidx,
              cs |-> [cs EXCEPT !.ports = cs.ports @@ (port :> defaultidx)]]

Push(cs, evt) == [cs EXCEPT !.track = Append(cs.track, evt)]

\* encounter_setlabel binding the label again instead of failing
encounter_setlabel_overwrite(cs, lbl) ==
    Ok([cs EXCEPT !.labels =
          [l \in DOMAIN cs.labels \cup {lbl} |->
              IF l = lbl THEN Len(cs.track) ELSE cs.labels[l]]])

\* Compiler::encounter_setlabel
encounter_setlabel(cs, lbl) ==
    IF lbl \in DOMAIN cs.labels
    THEN Err(cs, [kind |-> "DuplicateLabel", label |-> lbl,
                  first_location |-> cs.labels[lbl],
                  second_location |-> Len(cs.track)])
    ELSE Ok([cs EXCEPT !.labels = cs.labels @@ (lbl :> Len(cs.track))])

\* encounter_jump emitting every jump without a count
encounter_jump_dropcount(cs, count, label) ==
    IF label \in DOMAIN cs.labels
    THEN Ok(Push(cs, Jump(cs.labels[label], None)))
    ELSE Ok(Push([cs EXCEPT !.jump_fix_backlog =
                       cs.jump_fix_backlog @@ (Len(cs.track) :> label)],
                 Jump(USIZE_MAX, None)))

\* Compiler::encounter_jump
encounter_jump(cs, count, label) ==
    IF label \in DOMAIN cs.labels
    THEN Ok(Push(cs, Jump(cs.labels[label], count)))
    ELSE Ok(Push([cs EXCEPT !.jump_fix_backlog =
                       cs.jump_fix_backlog @@ (Len(cs.track) :> label)],
                 Jump(USIZE_MAX, count)))

\* Compiler::encounter_setattr
encounter_setattr(cs, item) ==
    LET new_bpm == IF item.attr = "Signature" THEN Some(AttrValue(item)) ELSE None
        pushed == push_attribute(cs.attributes, item)
    IN  IF cs.track = <<>>
        THEN IF ~pushed.ok THEN Err(cs, pushed.err)
             ELSE LET cs1 == [cs EXCEPT !.attributes = pushed.attrs]
                  IN  IF IsSome(new_bpm) THEN Ok(Push(cs1, SetBpm(Unwrap(new_bpm))))
                      ELSE Ok(cs1)
        ELSE IF cs.track[1].op = "SetBpm" /\ new_bpm = Some(cs.track[1].bpm)
        THEN Ok(cs)
        ELSE IF cs.track[1].op = "SetBpm" /\ ~IsSome(new_bpm)
        THEN IF ~pushed.ok THEN Err(cs, pushed.err)
             ELSE Ok([cs EXCEPT !.attributes = pushed.attrs])
        ELSE Err(cs, [kind |-> "AttributeOutsideHeader", attr |-> item.attr])

\* the key offsets and the key of a chord kind
ChordOffsets(kind) ==
    CASE kind = "Raw" -> <<0>>
      [] kind = "Fifth" -> <<0, 4>>
      [] kind \in {"Major", "Minor"} -> <<0, 2, 4>>
      [] kind \in {"Major7", "Minor7"} -> <<0, 2, 4, 7>>

ChordKey(press) ==
    IF press.kind \in {"Minor", "Minor7"} THEN NoteKey_minor(press.root)
    ELSE NoteKey_major(press.root)

\* the `for offset in offsets` loop of encounter_pressline
RECURSIVE PressOffsets(_, _, _, _, _)
PressOffsets(cs, press, offsets, prev_pitch, p) ==
    IF offsets = <<>> THEN cs
    ELSE LET raw_pitch == from_note_octave(NoteKey_nth(ChordKey(press), Head(offsets)),
                                           press.octave)
             cur_pitch == IF raw_pitch < prev_pitch THEN wrapping_add(raw_pitch, 12)
                          ELSE raw_pitch
             evt == SendMessage(NoteOn(p.channel, cur_pitch, p.vel), p.port)
             cs1 == [cs EXCEPT !.tick_spans = Append(cs.tick_spans,
                                                     <<Len(cs.track), p.duration>>),
                               !.track = Append(cs.track, evt)]
         IN  PressOffsets(cs1, press, Tail(offsets), cur_pitch, p)

\* the `for press in data.presses` loop of encounter_pressline
RECURSIVE PressAll(_, _, _)
PressAll(cs, data, presses) ==
    IF presses = <<>> THEN cs
    ELSE LET press == Head(presses)
             channel == UnwrapOr(OrElse(FindModifier(press.modifiers, "Channel"),
                                        FindModifier(data.modifiers, "Channel")),
                                 default_channel(cs.attributes))
             vel == UnwrapOr(OrElse(FindModifier(press.modifiers, "Velocity"),
                                    FindModifier(data.modifiers, "Velocity")),
                             default_velocity(cs.attributes))
             duration == UnwrapOr(OrElse(FindModifier(press.modifiers, "Duration"),
                                         FindModifier(data.modifiers, "Duration")),
                                  default_duration(cs.attributes))
             portlbl == OrElse(OrElse(FindModifier(press.modifiers, "Port"),
                                      FindModifier(data.modifiers, "Port")),
                               default_port(cs.attributes))
             pr == port_label_to_idx(cs, portlbl)
             root_pitch == from_note_octave(press.root, press.octave)
             cs1 == PressOffsets(pr.cs, press, ChordOffsets(press.kind), root_pitch,
                                 [channel |-> channel, vel |-> vel,
                                  duration |-> duration, port |-> pr.port])
         IN  PressAll(cs1, data, Tail(presses))

\* Compiler::encounter_pressline
encounter_pressline(cs, data) ==
    Ok(Push(PressAll(cs, data, data.presses), Wait(Ticks(ONE_NZU16))))

\* the jump count of a loop taken as the repetitions themselves
LoopCount_raw(rawcount) == rawcount

\* the jump count of a loop: rawcount.map(|n| n - 1, or 1 when that is 0)
LoopCount(rawcount) ==
    IF IsSome(rawcount)
    THEN (IF Unwrap(rawcount) - 1 > 0 THEN Some(Unwrap(rawcount) - 1)
          ELSE Some(ONE_NZU16))
    ELSE None

RECURSIVE compile_item(_, _)
RECURSIVE compile_items(_, _)

\* Compiler::encounter_loop
encounter_loop(cs, rawcount, body) ==
    LET count == LoopCount(rawcount)
        target == Len(cs.track)
        r == compile_items(cs, body)
    IN  IF ~r.ok THEN r
        ELSE Ok(Push(r.cs, Jump(target, count)))

\* Compiler::compile_item
compile_item(cs, item) ==
    CASE item.type = "Loop" -> encounter_loop(cs, item.repititions, item.expr)
      [] item.type = "NotePress" -> encounter_pressline(cs, item.data)
      [] item.type = "Wait" -> Ok(Push(cs, Wait(item.dur)))
      [] item.type = "SetAttribute" -> encounter_setattr(cs, item)
      [] item.type = "Asm" ->
           CASE item.cmd = "Wait" -> Ok(Push(cs, Wait(item.dur)))
             [] item.cmd = "SetBpm" -> Ok(Push(cs, SetBpm(item.bpm)))
             [] item.cmd = "Label" -> encounter_setlabel(cs, item.label)
             [] item.cmd = "Send" ->
                  LET pr == port_label_to_idx(cs, item.port)
                  IN  Ok(Push(pr.cs, SendMessage(item.message, pr.port)))
             [] item.cmd = "Jump" -> encounter_jump(cs, item.count, item.label)

\* `for itm in song { compiler.compile_item(itm)?; }`
compile_items(cs, items) ==
    IF items = <<>> THEN Ok(cs)
    ELSE LET r == compile_item(cs, Head(items))
         IN  IF ~r.ok THEN r ELSE compile_items(r.cs, Tail(items))

\* the placeholder targets left in place
resolve_jumps_keep(cs) == cs

\* Compiler::resolve_jumps, once every backlog label is known to be bound:
\* each logged jump gets its label's location as target

resolve_jumps(cs) ==
    [cs EXCEPT
       !.track = [i \in 1 .. Len(cs.track) |->
                    IF (i - 1) \in DOMAIN cs.jump_fix_backlog
                    THEN [cs.track[i] EXCEPT
                            !.target = cs.labels[cs.jump_fix_backlog[i - 1]]]
                    ELSE cs.track[i]],
       !.jump_fix_backlog = <<>>]

\* the labels of the backlog that resolve_jumps does not find
MissingLabels(cs) ==
    {cs.jump_fix_backlog[i] : i \in DOMAIN cs.jump_fix_backlog} \ DOMAIN cs.labels

\* Compiler::resolve_tickspans : a non-empty tick_spans reaches todo!()
resolve_tickspans_panics(cs) == cs.tick_spans # <<>>

\* compile_song leaving the track without its terminator
compile_song_noterminate(cs) == cs

\* compile_song : compiler.track.push(TrackEvent::End)
compile_song_terminate(cs) == Push(cs, End)

(***************************************************************************)
(* The programs and the ends the model runs                                *)
(***************************************************************************)
SeqsUpTo(S, n) == UNION {[1 .. k -> S] : k \in 0 .. n}

C4On == NoteOn(0, 60, 90)
E4On == NoteOn(0, 64, 90)
FastBpm == [beats_per_minute |-> 240, ticks_per_beat |-> 32]
SlowBpm == [beats_per_minute |-> 60, ticks_per_beat |-> 32]

\* `play c4`
PlayC4 == LangNotePress(PressLine(<<ChordPress(0, 4, "Raw", <<>>)>>, <<>>))

SendC4 == AsmSend(C4On, None)
SendE4 == AsmSend(E4On, Some("x"))
WaitTick == AsmWait(Ticks(1))

\* flat asm programs over one label
FlatSongs ==
    SeqsUpTo({SendC4, WaitTick, AsmLabel("a"), AsmJump("a", None),
              AsmJump("a", Some(1))}, MaxItems)

\* one loop, finite or not, around a short body
LoopBodies == SeqsUpTo({SendC4, WaitTick, PlayC4}, MaxBody)
Repetitions == {None} \cup {Some(k) : k \in 1 .. MaxReps}
LoopSongs == {<<LangLoop(b, r)>> : b \in LoopBodies, r \in Repetitions}

\* a finite loop whose only wait has no length
ZeroWaitSongs ==
    {<<LangLoop(<<SendC4, AsmWait(Clock(0))>>, Some(k))>> : k \in 1 .. MaxReps}

\* a loop of two sends around a tempo change
TempoSongs ==
    {<<AsmLabel("a"), SendC4, AsmWait(w), AsmSetBpm(b), SendE4, WaitTick,
       AsmJump("a", c)>> :
        w \in {Ticks(1), Clock(0)}, b \in {FastBpm, SlowBpm}, c \in {None, Some(2)}}

\* attributes inside and outside the header
HeaderSongs ==
    {<<LangSetAttribute("Signature", FastBpm), SendC4, LangWait(Ticks(1))>>,
     <<SendC4, LangSetAttribute("DefaultChannel", 1)>>}

Songs == FlatSongs \cup LoopSongs \cup ZeroWaitSongs \cup TempoSongs \cup HeaderSongs

TickNanos == tick_duration(DefaultBpm)
Ends == {k * TickNanos : k \in 0 .. MaxEndTicks}

\* long playback: at the fastest tempo a wait of LongWaitTicks ticks is short
\* on the clock, and the second pass of the loop has waited for more ticks
\* than a u16 holds
QuickBpm == [beats_per_minute |-> U16_MAX, ticks_per_beat |-> U16_MAX]
LongWaitTicks == 40000
MaxLongWaits == 2
LongWait == AsmWait(Ticks(LongWaitTicks))
LongSongs ==
    {<<AsmSetBpm(QuickBpm), AsmLabel("a"), SendC4, LongWait, AsmJump("a", c)>> :
        c \in {None, Some(1), Some(2)}}
    \cup {<<AsmSetBpm(QuickBpm), SendC4, LongWait, SendE4, WaitTick, LongWait>>}
LongEnds ==
    {k * as_duration(Ticks(LongWaitTicks), QuickBpm) : k \in 0 .. MaxLongWaits}

\* a finite loop inside a finite loop, each of two passes or more, around
\* one send and a wait of a tick
MaxNest == 3
NestSong(a, b, send) ==
    <<LangLoop(<<LangLoop(<<send, WaitTick>>, Some(b))>>, Some(a))>>
NestSongs ==
    {NestSong(a, b, send) : a \in 2 .. MaxNest, b \in 2 .. MaxNest,
                            send \in {SendC4, SendE4}}
\* an end inside the playback and one past all of it
NestEnds == {2 * TickNanos, (MaxNest * MaxNest + 1) * TickNanos}

\* the ends step_until is called with on the track of a program
EndsFor(program) ==
    IF program \in LongSongs THEN LongEnds
    ELSE IF program \in NestSongs THEN NestEnds
    ELSE Ends

(***************************************************************************)
(* The programs compile_song alone is run on                               *)
(***************************************************************************)
\* loops inside a loop
AsmBodies == SeqsUpTo({SendC4, WaitTick}, MaxBody)
NestedSongs ==
    {<<LangLoop(<<LangLoop(b1, r1)>> \o b2, r2)>> :
        b1 \in AsmBodies, b2 \in AsmBodies, r1 \in Repetitions, r2 \in Repetitions}

\* two labels, jumps to them and to a label defined nowhere
LabelItems ==
    {SendC4, AsmLabel("a"), AsmLabel("b"), AsmJump("a", None),
     AsmJump("b", Some(2)), AsmJump("c", None)}
LabelSongs == SeqsUpTo(LabelItems, MaxItems)

\* every attribute kind with two values, and the items that emit
\* instructions or not
AttrItems ==
    {LangSetAttribute("Signature", FastBpm), LangSetAttribute("Signature", SlowBpm),
     LangSetAttribute("DefaultDuration", Ticks(1)),
     LangSetAttribute("DefaultDuration", Ticks(2)),
     LangSetAttribute("DefaultChannel", 1), LangSetAttribute("DefaultChannel", 2),
     LangSetAttribute("DefaultPort", "x"), LangSetAttribute("DefaultPort", "y"),
     LangSetAttribute("DefaultPressVelocity", 64),
     LangSetAttribute("DefaultPressVelocity", 100)}
BodyItems ==
    {SendC4, LangWait(Ticks(1)), AsmSetBpm(FastBpm), AsmLabel("a"), PlayC4,
     LangLoop(<<SendC4>>, Some(2))}
AttrSongs == SeqsUpTo(AttrItems \cup BodyItems, MaxHeader)

\* sends to the nameless port and to two named ones, at the top level and
\* in a loop, after a header that names a default port or not
PortItems ==
    {AsmSend(C4On, None), AsmSend(C4On, Some("x")), AsmSend(E4On, Some("y")),
     WaitTick}
PortHeaders == {<<>>, <<LangSetAttribute("DefaultPort", "z")>>,
                <<LangSetAttribute("DefaultPort", "x")>>}
PortSongs ==
    {h \o b : h \in PortHeaders, b \in SeqsUpTo(PortItems, MaxItems)}
      \cup {h \o <<LangLoop(b, r)>> \o c :
               h \in PortHeaders, b \in SeqsUpTo(PortItems, MaxBody),
               r \in {None, Some(2)}, c \in SeqsUpTo(PortItems, 1)}

\* one chord press of every root, octave and kind
NoteClasses == 0 .. 11
Octaves == (0 - 1) .. 9
ChordKinds == {"Raw", "Fifth", "Major", "Minor", "Major7", "Minor7"}
PlayChord(root, octave, kind) ==
    LangNotePress(PressLine(<<ChordPress(root, octave, kind, <<>>)>>, <<>>))
ChordSongs ==
    {<<PlayChord(root, octave, kind)>> :
        root \in NoteClasses, octave \in Octaves, kind \in ChordKinds}

\* a line of two presses, the first with its own modifiers, the second
\* without, under line modifiers and header attributes: each of channel,
\* velocity and port is given or not at each of the three levels
ModFlags == [channel : BOOLEAN, velocity : BOOLEAN, port : BOOLEAN]
PressVals == [channel |-> 3, velocity |-> 30, port |-> "p"]
LineVals == [channel |-> 2, velocity |-> 20, port |-> "l"]
HeaderVals == [channel |-> 1, velocity |-> 10, port |-> "h"]
ModSeq(f, vals) ==
    (IF f.port THEN <<PressModifier("Port", vals.port)>> ELSE <<>>)
      \o (IF f.velocity THEN <<PressModifier("Velocity", vals.velocity)>> ELSE <<>>)
      \o (IF f.channel THEN <<PressModifier("Channel", vals.channel)>> ELSE <<>>)
HeaderSeq(f) ==
    (IF f.channel THEN <<LangSetAttribute("DefaultChannel", HeaderVals.channel)>>
     ELSE <<>>)
      \o (IF f.velocity
          THEN <<LangSetAttribute("DefaultPressVelocity", HeaderVals.velocity)>>
          ELSE <<>>)
      \o (IF f.port THEN <<LangSetAttribute("DefaultPort", HeaderVals.port)>> ELSE <<>>)
ModifierSong(h, l, p) ==
    HeaderSeq(h)
      \o <<LangNotePress(PressLine(<<ChordPress(0, 4, "Raw", ModSeq(p, PressVals)),
                                     ChordPress(4, 4, "Raw", <<>>)>>,
                                   ModSeq(l, LineVals)))>>
ModifierSongs == {ModifierSong(h, l, p) : h \in ModFlags, l \in ModFlags, p \in ModFlags}

\* lines of one or two chord presses in octave 4, each press with or
\* without a duration modifier of its own, under a line with or without one
LineRoots == {0, 4}
LinePresses ==
    {ChordPress(root, 4, kind, pm) :
        root \in LineRoots, kind \in ChordKinds,
        pm \in {<<>>, <<PressModifier("Duration", Beats(2))>>}}
LineSongs ==
    {<<LangNotePress(PressLine(presses, lm))>> :
        presses \in SeqsUpTo(LinePresses, 2) \ {<<>>},
        lm \in {<<>>, <<PressModifier("Duration", Ticks(3))>>}}

CompilerSongs ==
    NestedSongs \cup LabelSongs \cup AttrSongs \cup PortSongs \cup ChordSongs
      \cup ModifierSongs \cup LineSongs

(***************************************************************************)
(* State                                                                   *)
(***************************************************************************)
VARIABLES
    song,      \* the Vec<LangItem> handed to compile_song
    result,    \* what compile_song did: status, track, ports, error
    cursor,    \* Option<TrackCursor>
    iter,      \* the iterator step_until returned and not yet exhausted:
               \* Some(end), or None
    phase,     \* "parsed", "compiled", "idle", "iterating", "panicked"
    events,    \* history: the events yielded since new() or reset()
    hist,      \* history: the last operation and facts about the calls
    conv,      \* a WaitTime, a BpmInfo and what the conversions returned
    multi,     \* a VecMultiCursor and what its last step_until yielded
    driver,    \* the process callback of main: its captures and the host
    control,   \* the callback with the pause and restart flags
    keys,      \* a NoteKey::minor and a NoteKey::major being compared
    midi,      \* a note message, its bytes and what parsing them gave
    rt         \* the allocation sentinel: RT_FLAG of each thread, the threads

vars == <<song, result, cursor, iter, phase, events, hist, conv, multi, driver,
          control, keys,
      midi, rt>>

\* the variables of the other specifications, which compile_song and a
\* single TrackCursor leave alone
others == <<conv, multi, driver, control, keys,
      midi, rt>>

\* status, track, ports and err are what the caller of compile_song gets;
\* cs is the Compiler at the point where compile_song returned or panicked
NoResult ==
    [status |-> "none", track |-> <<>>, ports |-> <<>>, err |-> NoError,
     cs |-> Compiler_new]

Hist0 ==
    [op |-> "init",
     \* every call since new() / reset() had an end >= the one before
     sorted |-> TRUE,
     \* the end of the last call since new() / reset(); -1 when none
     last_end |-> 0 - 1,
     \* events were yielded beyond the recorded MaxOut
     truncated |-> FALSE,
     \* per counted jump, how often it was reached since new() / reset()
     reaches |-> <<>>,
     \* the last step executed a jump: its index, else -1
     jumped |-> 0 - 1,
     \* the parity of the turns the iterator's loop made in the current call
     turn |-> 0,
     \* the last reset() found a partially consumed jump counter
     reset_partial |-> FALSE,
     \* the error of a panicking step
     err |-> NoError,
     \* as_ticks and as_duration of the Waits executed since new() / reset(),
     \* summed without a width
     waited_ticks |-> 0,
     waited_nanos |-> 0,
     \* how many messages were yielded since new() / reset(), up to MaxSent
     sent |-> 0]

\* the other specifications' variables when their component is not run
NoOthers ==
    /\ conv = <<>>
    /\ multi = <<>>
    /\ driver = <<>>
    /\ control = <<>>
    /\ keys = <<>>
    /\ midi = <<>>
    /\ rt = <<>>

Init ==
    /\ song \in Songs
    /\ result = NoResult
    /\ cursor = None
    /\ iter = None
    /\ phase = "parsed"
    /\ events = <<>>
    /\ hist = Hist0
    /\ NoOthers

\* compile_song alone, on its own set of programs
CompilerInit ==
    /\ song \in CompilerSongs
    /\ result = NoResult
    /\ cursor = None
    /\ iter = None
    /\ phase = "parsed"
    /\ events = <<>>
    /\ hist = Hist0
    /\ NoOthers

cur == Unwrap(cursor)

(***************************************************************************)
(* compile_song                                                            *)
(***************************************************************************)
\* compile_song after resolve_jumps: resolve_tickspans, then the result
compile_song_tickspans(cs) ==
    IF resolve_tickspans_panics(cs)
    THEN [status |-> "Panic", track |-> <<>>, ports |-> <<>>, err |-> NoError,
          cs |-> cs]
    ELSE [status |-> "Ok", track |-> cs.track, ports |-> cs.ports, err |-> NoError,
          cs |-> cs]

\* compile_song after the terminator is pushed: resolve_jumps fails with a
\* label of the backlog that is not bound (which one is up to the HashMap's
\* order), or patches the targets
compile_song_resolve(cs) ==
    IF MissingLabels(cs) # {}
    THEN {[status |-> "Err", track |-> <<>>, ports |-> <<>>,
           err |-> [kind |-> "LabelNotFound", label |-> lbl], cs |-> cs] :
            lbl \in MissingLabels(cs)}
    ELSE {compile_song_tickspans(resolve_jumps(cs))}

\* compile_song after the main pass, r being what the pass returned
compile_song_finish(r) ==
    IF ~r.ok
    THEN {[status |-> "Err", track |-> <<>>, ports |-> <<>>, err |-> r.err,
           cs |-> r.cs]}
    ELSE compile_song_resolve(compile_song_terminate(r.cs))

\* compile_song : the results it can end with
compile_song(items) == compile_song_finish(compile_items(Compiler_new, items))

CompileSong ==
    /\ phase = "parsed"
    /\ result' \in compile_song(song)
    /\ phase' = "compiled"
    /\ hist' = [hist EXCEPT !.op = "compile"]
    /\ UNCHANGED <<song, cursor, iter, events, others>>

(***************************************************************************)
(* TrackCursor::new on the compiled track                                  *)
(***************************************************************************)
FreshHist(c, op) ==
    [Hist0 EXCEPT !.op = op,
                  !.reaches = [idx \in DOMAIN c.jump_counts.data |-> 0]]

NewCursor ==
    /\ phase = "compiled"
    /\ result.status = "Ok"
    /\ cursor' = Some(TrackCursor_new(result.track))
    /\ phase' = "idle"
    /\ events' = <<>>
    /\ hist' = FreshHist(TrackCursor_new(result.track), "new")
    /\ UNCHANGED <<song, result, iter, others>>

(***************************************************************************)
(* TrackCursor::step_until : the call builds the iterator, nothing runs    *)
(***************************************************************************)
StepUntil ==
    /\ phase = "idle"
    /\ \E end \in EndsFor(song) :
          /\ iter' = Some(end)
          /\ hist' = [hist EXCEPT !.op = "step_until",
                                  !.sorted = hist.sorted /\ hist.last_end <= end,
                                  !.last_end = end,
                                  !.jumped = 0 - 1]
    /\ phase' = "iterating"
    /\ UNCHANGED <<song, result, cursor, events, others>>

(***************************************************************************)
(* One turn of the loop in the iterator's closure                          *)
(***************************************************************************)
Record(h, res) ==
    LET evt == cur.data[cur.instruction_pointer + 1]
        counted == res.ok /\ evt.op = "Jump" /\ IsSome(evt.count)
        ip == cur.instruction_pointer
    IN  [h EXCEPT !.op = "step",
                  !.turn = IF res.ok /\ res.out.kind = "End" THEN 0 ELSE 1 - h.turn,
                  !.jumped = IF res.ok /\ evt.op = "Jump" THEN ip ELSE 0 - 1,
                  !.reaches = IF counted
                              THEN [h.reaches EXCEPT ![ip] = Min(@ + 1, MaxReach)]
                              ELSE h.reaches,
                  !.truncated = h.truncated
                                  \/ (res.ok /\ res.out.kind = "Message"
                                        /\ Len(events) >= MaxOut),
                  !.waited_ticks =
                      IF res.ok /\ evt.op = "Wait"
                      THEN @ + as_ticks(evt.time, cur.cur_bpm) ELSE @,
                  !.waited_nanos =
                      IF res.ok /\ evt.op = "Wait"
                      THEN @ + as_duration(evt.time, cur.cur_bpm) ELSE @,
                  !.sent = IF res.ok /\ res.out.kind = "Message"
                           THEN Min(@ + 1, MaxSent) ELSE @]

IterStep ==
    /\ phase = "iterating"
    /\ LET end == Unwrap(iter) IN
       \/ /\ past_end(cur.cur_time, end)
          /\ iter' = None
          /\ phase' = "idle"
          /\ hist' = [hist EXCEPT !.op = "exhausted", !.jumped = 0 - 1, !.turn = 0]
          /\ UNCHANGED <<cursor, events>>
       \/ /\ ~past_end(cur.cur_time, end)
          /\ \E overflow_checks \in BOOLEAN :
               LET res == step(cur, overflow_checks) IN
               IF ~res.ok
               THEN /\ phase' = "panicked"
                    /\ iter' = None
                    /\ hist' = [hist EXCEPT !.op = "panic", !.err = res.err, !.turn = 0]
                    /\ UNCHANGED <<cursor, events>>
               ELSE /\ cursor' = Some(res.c)
                    /\ hist' = Record(hist, res)
                    /\ IF res.out.kind = "End"
                       THEN /\ iter' = None
                            /\ phase' = "idle"
                            /\ events' = events
                       ELSE /\ iter' = iter
                            /\ phase' = "iterating"
                            /\ events' = IF res.out.kind = "Message"
                                            /\ Len(events) < MaxOut
                                         THEN Append(events,
                                                [time |-> res.out.time,
                                                 port |-> res.out.port,
                                                 msg |-> res.out.msg,
                                                 end |-> end])
                                         ELSE events
    /\ UNCHANGED <<song, result, others>>

(***************************************************************************)
(* TrackCursor::reset                                                      *)
(***************************************************************************)
Reset ==
    /\ phase = "idle"
    /\ LET r == reset(cur) IN
       IF r.ok
       THEN /\ cursor' = Some(r.c)
            /\ phase' = "idle"
            /\ hist' = [FreshHist(cur, "reset") EXCEPT
                          !.reset_partial =
                              \E idx \in DOMAIN cur.jump_counts.data :
                                 cur.jump_counts.data[idx]
                                    # Unwrap(cur.data[idx + 1].count)]
       ELSE /\ cursor' = cursor
            /\ phase' = "panicked"
            /\ hist' = [hist EXCEPT !.op = "panic",
                                    !.err = [kind |-> "JumpIdxNotFound"]]
    /\ events' = <<>>
    /\ UNCHANGED <<song, result, iter, others>>

Next == CompileSong \/ NewCursor \/ StepUntil \/ IterStep \/ Reset

Spec == Init /\ [][Next]_vars

\* the cursor operations on programs that play for long
LongInit ==
    /\ song \in LongSongs
    /\ result = NoResult
    /\ cursor = None
    /\ iter = None
    /\ phase = "parsed"
    /\ events = <<>>
    /\ hist = Hist0
    /\ NoOthers

LongSpec == LongInit /\ [][Next]_vars

\* the cursor operations on nested finite loops
NestInit ==
    /\ song \in NestSongs
    /\ result = NoResult
    /\ cursor = None
    /\ iter = None
    /\ phase = "parsed"
    /\ events = <<>>
    /\ hist = Hist0
    /\ NoOthers

NestSpec == NestInit /\ [][Next]_vars

CompilerNext == CompileSong

CompilerSpec == CompilerInit /\ [][CompilerNext]_vars

\* the consumer of a step_until iterator keeps asking for the next event
FairSpec == Spec /\ WF_vars(IterStep)

(***************************************************************************)
(* Helpers of the properties                                               *)
(***************************************************************************)
HasCursor == phase \in {"idle", "iterating"}
AtEnd == cur.data[cur.instruction_pointer + 1].op = "End"

\* the (time, port, message) triples of recorded events
Triples(evs) ==
    [k \in 1 .. Len(evs) |->
        [time |-> evs[k].time, port |-> evs[k].port, msg |-> evs[k].msg]]

FuelMark == [time |-> 0 - 1, port |-> 0 - 1, msg |-> C4On]

\* what one fully consumed step_until(end) yields from cursor c: the loop
\* of the iterator's closure, run until it returns None
RECURSIVE RunUntil(_, _, _, _)
RunUntil(c, end, fuel, acc) ==
    IF fuel = 0 THEN Append(acc, FuelMark)
    ELSE IF past_end(c.cur_time, end) THEN acc
    ELSE LET res == step(c, FALSE) IN
         IF ~res.ok THEN Append(acc, FuelMark)
         ELSE IF res.out.kind = "End" THEN acc
         ELSE RunUntil(res.c, end, fuel - 1,
                       IF res.out.kind = "Message"
                       THEN Append(acc, [time |-> res.out.time, port |-> res.out.port,
                                         msg |-> res.out.msg])
                       ELSE acc)

\* a single step_until(end) on a fresh cursor over the compiled track
FreshRun(end) == RunUntil(TrackCursor_new(result.track), end, MaxFuel, <<>>)

NoteOns(evs) == Cardinality({k \in 1 .. Len(evs) : evs[k].msg.kind = "NoteOn"})

\* the calls since new() / reset() are exhausted and the cursor reached End
RanToEnd == phase = "idle" /\ hist.last_end >= 0 /\ AtEnd /\ ~hist.truncated

LoopPlayC4(k) == <<LangLoop(<<PlayC4>>, Some(k))>>

\* the track a press line of one raw press compiles to, written as asm items
LoopSendWait(k) == <<LangLoop(<<SendC4, WaitTick>>, Some(k))>>

\* Lemma: a finite loop around one send and one tick of wait is passed
\* through max(k, 2) times, since a jump count cannot be 0.
LoopSendWaitPasses ==
    \A k \in 1 .. MaxReps :
       (song = LoopSendWait(k) /\ RanToEnd) =>
          NoteOns(events) = (IF k = 1 THEN 2 ELSE k)

\* Lemma: on that loop, step_until of one default tick yields two events:
\* the second pass starts with the clock at the end, not past it.
OneTickDriveYieldsTwo ==
    (song = LoopSendWait(3) /\ phase = "idle" /\ hist.sorted
        /\ hist.last_end = TickNanos) => NoteOns(events) = 2

\* the items of a program that are not loops, in the order compile_item
\* meets them
RECURSIVE Leaves(_)
Leaves(items) ==
    IF items = <<>> THEN <<>>
    ELSE (IF Head(items).type = "Loop" THEN Leaves(Head(items).expr)
          ELSE <<Head(items)>>) \o Leaves(Tail(items))

Compiled == phase = "compiled"

(***************************************************************************)
(* C1.  Compiling Loop { body = [one press line], repetitions = Some(k) }  *)
(* succeeds, and a fresh cursor run to the end of the track yields exactly *)
(* k note-ons.                                                             *)
(***************************************************************************)
C1_LoopRepetitionCount ==
    \A k \in 1 .. MaxReps :
       song = LoopPlayC4(k) =>
          /\ phase # "parsed" => result.status = "Ok"
          /\ RanToEnd => NoteOns(events) = k

C3_YieldedInRange == \A k \in 1 .. Len(events) : events[k].time <= events[k].end

C3_ExhaustedPastEnd ==
    (phase = "idle" /\ hist.last_end >= 0) => (AtEnd \/ cur.cur_time > hist.last_end)

C3_LateCallIsNoop ==
    /\ (phase = "idle" /\ phase' = "iterating") =>
          (cursor' = cursor /\ events' = events)
    /\ (phase = "iterating" /\ cur.cur_time > Unwrap(iter)) =>
          (cursor' = cursor /\ events' = events /\ phase' = "idle")

C3_StepUntilRange ==
    /\ [](C3_YieldedInRange /\ C3_ExhaustedPastEnd)
    /\ [][C3_LateCallIsNoop]_vars

\* a call made with the clock already past its end is exhausted, after an
\* earlier call yielded an event at exactly its end
C3_Witness ==
    /\ phase = "idle" /\ hist.op = "exhausted"
    /\ cur.cur_time > hist.last_end /\ ~AtEnd
    /\ \E k \in 1 .. Len(events) : events[k].time = events[k].end /\ events[k].time > 0

(***************************************************************************)
(* C4.  After calls step_until(e1), ..., step_until(em) with               *)
(* e1 <= ... <= em on one cursor since new() or reset(), each fully        *)
(* consumed, the events yielded are, in order, exactly those one           *)
(* step_until(em) yields on a fresh cursor.                                *)
(***************************************************************************)
C4_SplitEqualsSingle ==
    (phase = "idle" /\ hist.last_end >= 0 /\ hist.sorted /\ ~hist.truncated) =>
       Triples(events) = FreshRun(hist.last_end)

\* events of three calls with different ends, the last one not at time 0
C4_Witness ==
    /\ phase = "idle" /\ hist.sorted /\ ~hist.truncated
    /\ Cardinality({events[k].end : k \in 1 .. Len(events)}) >= 3
    /\ events[Len(events)].time > 0

(***************************************************************************)
(* C5.  End is absorbing: with the cursor on End, no step and no           *)
(* step_until changes the cursor or yields an event; only reset() moves    *)
(* the cursor off End.                                                     *)
(***************************************************************************)
C5_EndAbsorbing ==
    [][(HasCursor /\ AtEnd /\ hist'.op # "reset") =>
          (cursor' = cursor /\ events' = events /\ phase' # "panicked")]_vars

\* step() returned End to a step_until called with the cursor on End
C5_Witness ==
    /\ phase = "idle" /\ hist.op = "step" /\ AtEnd
    /\ ~hist.sorted
    /\ events # <<>>

C7_RestartScenario ==
    song = LoopPlayC4(3) =>
       /\ phase # "parsed" => result.status = "Ok"
       /\ (phase = "idle" /\ hist.sorted /\ hist.last_end = TickNanos)
             => NoteOns(events) = 1
       /\ RanToEnd => NoteOns(events) = 3

(***************************************************************************)
(* C8.  The times of the events yielded since new() or reset() are         *)
(* non-decreasing.                                                         *)
(***************************************************************************)
C8_TimeMonotone ==
    \A i, j \in 1 .. Len(events) : i < j => events[i].time <= events[j].time

\* events of two calls, the later at a later time, on a track that
\* changes the tempo and jumps
C8_Witness ==
    /\ HasCursor
    /\ \E k \in 1 .. Len(cur.data) : cur.data[k].op = "SetBpm"
    /\ \E k \in 1 .. Len(cur.data) : cur.data[k].op = "Jump"
    /\ \E i, j \in 1 .. Len(events) :
          i < j /\ events[i].time < events[j].time /\ events[i].end < events[j].end

(***************************************************************************)
(* C9.  Every step_until iterator is exhausted after finitely many steps.  *)
(***************************************************************************)
C9_FinitePerCall == (phase = "iterating") ~> (phase # "iterating")

(***************************************************************************)
(* C10.  In a track compile_song returns, every Jump target is at most     *)
(* track.len() - 1, and no step of a cursor on it fails with               *)
(* BadInstrPointer, BadJumpTarget or JumpIdxNotFound.                      *)
(***************************************************************************)
C10_CompiledJumpsValid ==
    /\ result.status = "Ok" =>
          \A k \in 1 .. Len(result.track) :
             result.track[k].op = "Jump" =>
                result.track[k].target <= Len(result.track) - 1
    /\ hist.err.kind \notin {"BadInstrPointer", "BadJumpTarget", "JumpIdxNotFound"}

\* a forward-referencing jump was resolved and executed
C10_Witness ==
    /\ HasCursor /\ hist.op = "step" /\ hist.jumped >= 0
    /\ cur.data[hist.jumped + 1].target > hist.jumped
    /\ cur.instruction_pointer = cur.data[hist.jumped + 1].target

(***************************************************************************)
(* C11.  A track compile_song returns is not empty, its last instruction   *)
(* is End and none of the instructions before it is End.                   *)
(***************************************************************************)
C11_SingleTerminator ==
    result.status = "Ok" =>
       /\ Len(result.track) >= 1
       /\ result.track[Len(result.track)] = End
       /\ \A k \in 1 .. Len(result.track) - 1 : result.track[k].op # "End"

\* the empty program is not the only one compiled: a loop inside a loop,
\* both with a body, compiled
C11_Witness ==
    /\ result.status = "Ok"
    /\ song \in NestedSongs
    /\ Len(result.track) >= 6

\* the track the spec expects of one raw press of root r, octave o
SingleNoteTrack(r, o) ==
    <<SendMessage(NoteOn(0, from_note_octave(r, o), 90), 0), Wait(Ticks(1)), End>>

\* Lemma: when compile_song reaches resolve_tickspans on one raw press,
\* the compiler's track is the expected one.
SingleNoteTrackAtPanic ==
    \A r \in NoteClasses, o \in Octaves :
       (song = <<PlayChord(r, o, "Raw")>> /\ Compiled) =>
          /\ result.status = "Panic"
          /\ result.cs.track = SingleNoteTrack(r, o)
          /\ result.cs.ports = (None :> 0)

(***************************************************************************)
(* C12.  Compiling one press line of one Raw press (root r, octave o),     *)
(* without modifiers or attributes, returns Ok with the track              *)
(* [SendMessage(NoteOn{0, from_note_octave(r, o), 90}, port 0),            *)
(* Wait(Ticks(1)), End], and a cursor run over [0, 1 tick] yields that     *)
(* message at time 0.                                                      *)
(***************************************************************************)
C12_SingleNote ==
    \A r \in NoteClasses, o \in Octaves :
       (song = <<PlayChord(r, o, "Raw")>> /\ Compiled) =>
          /\ result.status = "Ok"
          /\ result.track = SingleNoteTrack(r, o)
          /\ RunUntil(TrackCursor_new(result.track), TickNanos, MaxFuel, <<>>)
                = <<[time |-> 0, port |-> 0,
                     msg |-> NoteOn(0, from_note_octave(r, o), 90)]>>

\* the items before item i of the program, compiled
PrefixCompiled(i) == compile_items(Compiler_new, SubSeq(song, 1, i - 1))

\* the header is closed after a prefix: it emitted an instruction other
\* than the one SetBpm of a Signature attribute
HeaderClosed(i) ==
    LET track == PrefixCompiled(i).cs.track
        prefix == Leaves(SubSeq(song, 1, i - 1))
    IN  ~ \/ track = <<>>
          \/ /\ Len(track) = 1
             /\ track[1].op = "SetBpm"
             /\ \A k \in 1 .. Len(prefix) : prefix[k].type = "SetAttribute"

\* Lemma: an attribute met when the track is not empty and does not begin
\* with SetBpm fails with AttributeOutsideHeader.
AttributeAfterOtherFirst ==
    Compiled =>
       \A i \in 1 .. Len(song) :
          (/\ song[i].type = "SetAttribute"
           /\ PrefixCompiled(i).ok
           /\ PrefixCompiled(i).cs.track # <<>>
           /\ PrefixCompiled(i).cs.track[1].op # "SetBpm")
             => (result.status = "Err"
                   /\ result.err.kind = "AttributeOutsideHeader"
                   /\ result.err.attr = song[i].attr)

(***************************************************************************)
(* C13.  A SetAttribute item met after the header has closed makes         *)
(* compile_song fail with AttributeOutsideHeader, whether or not the track *)
(* begins with a SetBpm.                                                   *)
(***************************************************************************)
C13_AttributeOutsideHeader ==
    Compiled =>
       \A i \in 1 .. Len(song) :
          (song[i].type = "SetAttribute" /\ PrefixCompiled(i).ok /\ HeaderClosed(i))
             => (result.status = "Err"
                   /\ result.err.kind = "AttributeOutsideHeader"
                   /\ result.err.attr = song[i].attr)

\* items i < j of the program set the same attribute kind, the items
\* before j compiled and j is met within the header
SecondSetting(i, j) ==
    /\ i < j
    /\ song[i].type = "SetAttribute" /\ song[j].type = "SetAttribute"
    /\ song[i].attr = song[j].attr
    /\ PrefixCompiled(j).ok
    /\ ~HeaderClosed(j)

DuplicateReported(i, j) ==
    /\ result.status = "Err"
    /\ result.err.kind = "DuplicateAttributes"
    /\ result.err.attr = song[j].attr
    /\ result.err.prev = AttrValue(song[i])
    /\ result.err.new = AttrValue(song[j])

\* Lemma: the claim of C14 for the four kinds other than Signature.
DuplicateOtherThanSignature ==
    Compiled =>
       \A i, j \in 1 .. Len(song) :
          (SecondSetting(i, j) /\ song[j].attr # "Signature") => DuplicateReported(i, j)

(***************************************************************************)
(* C14.  Within the header, the second setting of an attribute kind makes  *)
(* compile_song fail with DuplicateAttributes(previous, new), for each of  *)
(* the five kinds, whether the two values are equal or not.                *)
(***************************************************************************)
C14_DuplicateAttributes ==
    Compiled =>
       \A i, j \in 1 .. Len(song) : SecondSetting(i, j) => DuplicateReported(i, j)

IsLabel(item) == item.type = "Asm" /\ item.cmd = "Label"

\* in a program without loops: the instructions emitted before item i,
\* every item but a Label emitting one
EmittedBefore(i) == Cardinality({k \in 1 .. i - 1 : ~IsLabel(song[k])})

\* the items that define a label an earlier item defined, and the first
\* item defining the label of item j
Redefinitions ==
    {j \in 1 .. Len(song) :
        IsLabel(song[j]) /\ \E i \in 1 .. j - 1 : song[i] = song[j]}
FirstOf(S) == CHOOSE i \in S : \A k \in S : i <= k
FirstDefinition(j) == FirstOf({i \in 1 .. Len(song) : song[i] = song[j]})

(***************************************************************************)
(* C15.  A Label emits no instruction and binds its name to the number of  *)
(* instructions emitted before it; the first Label that defines a name     *)
(* again makes compile_song fail with DuplicateLabel carrying the two      *)
(* locations, and the first binding stays.                                 *)
(***************************************************************************)
C15_LabelBinding ==
    (Compiled /\ song \in LabelSongs) =>
       IF Redefinitions # {}
       THEN LET j == FirstOf(Redefinitions)
                i == FirstDefinition(j)
            IN  /\ result.status = "Err"
                /\ result.err.kind = "DuplicateLabel"
                /\ result.err.label = song[j].label
                /\ result.err.first_location = EmittedBefore(i)
                /\ result.err.second_location = EmittedBefore(j)
                /\ result.cs.labels[song[j].label] = EmittedBefore(i)
                /\ Len(result.cs.track) = EmittedBefore(j)
       ELSE /\ result.err.kind # "DuplicateLabel"
            /\ \A i \in 1 .. Len(song) :
                  IsLabel(song[i]) =>
                     /\ song[i].label \in DOMAIN result.cs.labels
                     /\ result.cs.labels[song[i].label] = EmittedBefore(i)
            /\ Len(result.cs.track) = EmittedBefore(Len(song) + 1) + 1

\* a label defined at location 0 and again after an instruction
C15_Witness ==
    /\ Compiled /\ song \in LabelSongs
    /\ result.err.kind = "DuplicateLabel"
    /\ result.err.first_location = 0
    /\ result.err.second_location = 1
    /\ result.cs.labels[result.err.label] = 0

IsJump(item) == item.type = "Asm" /\ item.cmd = "Jump"

DefinedLabels == {song[k].label : k \in {i \in 1 .. Len(song) : IsLabel(song[i])}}
JumpedLabels == {song[k].label : k \in {i \in 1 .. Len(song) : IsJump(song[i])}}

\* the item that defines a label defined once
DefinitionOf(label) ==
    CHOOSE i \in 1 .. Len(song) : IsLabel(song[i]) /\ song[i].label = label

(***************************************************************************)
(* C16.  In a program whose labels are defined at most once: when every    *)
(* jump's label is defined, before the jump or after it, compile_song      *)
(* succeeds and each Jump emitted keeps its count and has the index bound  *)
(* to its label as target; when some label is defined nowhere,             *)
(* compile_song fails with LabelNotFound of such a label.                  *)
(***************************************************************************)
C16_JumpResolution ==
    (Compiled /\ song \in LabelSongs /\ Redefinitions = {}) =>
       IF JumpedLabels \subseteq DefinedLabels
       THEN /\ result.status = "Ok"
            /\ \A i \in 1 .. Len(song) :
                  IsJump(song[i]) =>
                     result.track[EmittedBefore(i) + 1]
                        = Jump(EmittedBefore(DefinitionOf(song[i].label)),
                               song[i].count)
       ELSE /\ result.status = "Err"
            /\ result.err.kind = "LabelNotFound"
            /\ result.err.label \in JumpedLabels \ DefinedLabels

\* a counted jump before its label and one after it
C16_Witness ==
    /\ Compiled /\ song \in LabelSongs /\ result.status = "Ok"
    /\ \E i, j, k \in 1 .. Len(song) :
          /\ i < j /\ j < k
          /\ IsJump(song[i]) /\ IsLabel(song[j]) /\ IsJump(song[k])
          /\ song[i].label = song[j].label /\ song[k].label = song[j].label
          /\ IsSome(song[i].count)
          /\ result.track[i].target = 1

IsSend(item) == item.type = "Asm" /\ item.cmd = "Send"

\* the port labels the sends of the program reference, in the order
\* compile_item meets them
PortRefs ==
    LET sends == SelectSeq(Leaves(song), IsSend)
    IN  [k \in 1 .. Len(sends) |-> sends[k].port]

\* the labels referenced before the first reference of label
ReferencedBefore(label) ==
    LET first == FirstOf({k \in 1 .. Len(PortRefs) : PortRefs[k] = label})
    IN  {PortRefs[k] : k \in 1 .. first - 1}

IsSendMessage(evt) == evt.op = "SendMessage"

(***************************************************************************)
(* C17.  In a successful compilation the port table binds exactly the      *)
(* referenced port labels (None being one), each to the number of labels   *)
(* referenced before it, so one-to-one onto 0 .. n - 1; every SendMessage  *)
(* carries the index of its label; a label only named by a DefaultPort     *)
(* attribute has no index.                                                 *)
(***************************************************************************)
C17_PortTable ==
    (Compiled /\ song \in PortSongs) =>
       LET sent == SelectSeq(result.track, IsSendMessage)
           labels == {PortRefs[k] : k \in 1 .. Len(PortRefs)}
       IN  /\ result.status = "Ok"
           /\ DOMAIN result.ports = labels
           /\ \A l \in labels : result.ports[l] = Cardinality(ReferencedBefore(l))
           /\ {result.ports[l] : l \in labels} = 0 .. Cardinality(labels) - 1
           /\ Len(sent) = Len(PortRefs)
           /\ \A k \in 1 .. Len(sent) : sent[k].port = result.ports[PortRefs[k]]

\* three labels referenced, the nameless one last, under a header naming a
\* default port no send references
C17_Witness ==
    /\ Compiled /\ song \in PortSongs /\ result.status = "Ok"
    /\ Len(song) >= 1 /\ song[1] = LangSetAttribute("DefaultPort", "z")
    /\ Cardinality(DOMAIN result.ports) = 3
    /\ result.ports[None] = 2
    /\ Some("z") \notin DOMAIN result.ports

\* the notes of the note-ons in the compiler's track, in track order
EmittedNotes ==
    LET sent == SelectSeq(result.cs.track, IsSendMessage)
    IN  [k \in 1 .. Len(sent) |-> sent[k].message.note]

\* the one press of a program of ChordSongs
ThePress == song[1].data.presses[1]

NonDecreasing(seq) == \A k \in 1 .. Len(seq) - 1 : seq[k] <= seq[k + 1]

\* Lemma: the claim of C18 for the octaves up to 7, where no pitch plus 12
\* passes 127.
ChordMonotoneUpToOctave7 ==
    (Compiled /\ song \in ChordSongs /\ ThePress.octave <= 7) =>
       /\ NonDecreasing(EmittedNotes)
       /\ EmittedNotes[1] = from_note_octave(ThePress.root, ThePress.octave)

(***************************************************************************)
(* C18.  For a chord press of any root, octave in -1 .. 9 and kind, the    *)
(* note-ons the compiler emits have non-decreasing pitches and the first   *)
(* is from_note_octave(root, octave).                                      *)
(***************************************************************************)
C18_ChordMonotone ==
    (Compiled /\ song \in ChordSongs) =>
       /\ EmittedNotes # <<>>
       /\ NonDecreasing(EmittedNotes)
       /\ EmittedNotes[1] = from_note_octave(ThePress.root, ThePress.octave)

\* Lemma: the claim of C19 for the octaves up to 8.
NotesInRangeUpToOctave8 ==
    (Compiled /\ song \in ChordSongs /\ ThePress.octave <= 8) =>
       \A k \in 1 .. Len(EmittedNotes) : EmittedNotes[k] \in 0 .. 127

(***************************************************************************)
(* C19.  Every note of a note-on emitted for a chord press of any root,    *)
(* octave in -1 .. 9 and kind lies in 0 .. 127.                            *)
(***************************************************************************)
C19_NoteRange ==
    (Compiled /\ song \in ChordSongs) =>
       \A k \in 1 .. Len(EmittedNotes) : EmittedNotes[k] \in 0 .. 127

\* the value of the first level that gives one: press, line, header,
\* built-in default
Precedence(field, p, l, h, default) ==
    IF p[field] THEN PressVals[field]
    ELSE IF l[field] THEN LineVals[field]
    ELSE IF h[field] THEN HeaderVals[field]
    ELSE default

PortPrecedence(p, l, h) ==
    IF p.port THEN Some(PressVals.port)
    ELSE IF l.port THEN Some(LineVals.port)
    ELSE IF h.port THEN Some(HeaderVals.port)
    ELSE None

NoFlags == [channel |-> FALSE, velocity |-> FALSE, port |-> FALSE]

(***************************************************************************)
(* C20.  The channel, velocity and port of the note-ons emitted for a      *)
(* press are each the press's modifier if it has one, else the line's,     *)
(* else the header attribute, else the default (channel 0, velocity 90,    *)
(* nameless port), independently of one another.                           *)
(***************************************************************************)
C20_ModifierPrecedence ==
    (Compiled /\ song \in ModifierSongs) =>
       \A h, l, p \in ModFlags :
          song = ModifierSong(h, l, p) =>
          LET sent == SelectSeq(result.cs.track, IsSendMessage)
              port1 == PortPrecedence(p, l, h)
              port2 == PortPrecedence(NoFlags, l, h)
          IN  /\ Len(sent) = 2
              /\ sent[1].message.channel = Precedence("channel", p, l, h, 0)
              /\ sent[1].message.velocity = Precedence("velocity", p, l, h, 90)
              /\ sent[2].message.channel = Precedence("channel", NoFlags, l, h, 0)
              /\ sent[2].message.velocity = Precedence("velocity", NoFlags, l, h, 90)
              /\ DOMAIN result.cs.ports = {port1, port2}
              /\ sent[1].port = result.cs.ports[port1]
              /\ sent[2].port = result.cs.ports[port2]
              /\ sent[1].port = 0
              /\ sent[2].port = (IF port2 = port1 THEN 0 ELSE 1)

\* the first press takes its channel from its own modifier, its velocity
\* from the line and its port from the header; the second press takes its
\* channel from the header
C20_Witness ==
    /\ Compiled
    /\ song = ModifierSong([channel |-> TRUE, velocity |-> TRUE, port |-> TRUE],
                           [channel |-> FALSE, velocity |-> TRUE, port |-> FALSE],
                           [channel |-> TRUE, velocity |-> FALSE, port |-> FALSE])
    /\ LET sent == SelectSeq(result.cs.track, IsSendMessage)
       IN  /\ sent[1].message.channel = PressVals.channel
           /\ sent[1].message.velocity = LineVals.velocity
           /\ sent[2].message.channel = HeaderVals.channel
           /\ result.cs.ports = (Some(HeaderVals.port) :> 0)

\* the semitones of the seven degrees of a major and of a natural minor
\* scale above the root, and the note class of a key offset of a press
ScaleSteps(kind) ==
    IF kind \in {"Minor", "Minor7"} THEN <<0, 2, 3, 5, 7, 8, 10>>
    ELSE <<0, 2, 4, 5, 7, 9, 11>>
OffsetClass(press, offset) ==
    (press.root + ScaleSteps(press.kind)[(offset % 7) + 1]) % 12

\* the note classes a line's presses are to emit, press after press
RECURSIVE LineClasses(_)
LineClasses(presses) ==
    IF presses = <<>> THEN <<>>
    ELSE LET press == Head(presses)
             offs == ChordOffsets(press.kind)
         IN  [k \in 1 .. Len(offs) |-> OffsetClass(press, offs[k])]
               \o LineClasses(Tail(presses))

\* track t is what the claim of C21 expects of the one press line `data`:
\* one note-on per key offset of each press, in order, one Wait(Ticks(1)),
\* the terminator
ChordLineTrack(t, data) ==
    LET classes == LineClasses(data.presses)
        n == Len(classes)
    IN  /\ Len(t) = n + 2
        /\ \A k \in 1 .. n :
              /\ IsSendMessage(t[k])
              /\ t[k].message.kind = "NoteOn"
              /\ t[k].message.note % 12 = classes[k]
        /\ t[n + 1] = Wait(Ticks(1))
        /\ t[n + 2] = End

\* the notes of the note-ons of track t, in order
NotesOf(t) ==
    LET sent == SelectSeq(t, IsSendMessage)
    IN  [k \in 1 .. Len(sent) |-> sent[k].message.note]

\* Lemma: at the point where compile_song panics on a press line, the
\* compiler's own track is the one the claim of C21 expects, and a cursor run
\* on it for one tick would yield every note-on at time 0 (for the octaves up
\* to 7, where no pitch plus 12 passes 127).
ChordLineTrackAtPanic ==
    (Compiled /\ song \in LineSongs \cup ChordSongs /\ ThePress.octave <= 7) =>
       /\ result.status = "Panic"
       /\ ChordLineTrack(result.cs.track, song[1].data)
       /\ song = <<PlayChord(0, 4, "Major")>>
             => NotesOf(result.cs.track) = <<60, 64, 67>>
       /\ song = <<PlayChord(4, 4, "Major")>>
             => NotesOf(result.cs.track) = <<64, 68, 71>>
       /\ LET out == RunUntil(TrackCursor_new(result.cs.track), TickNanos,
                              MaxFuel, <<>>)
          IN  /\ Len(out) = Len(result.cs.track) - 2
              /\ \A k \in 1 .. Len(out) : out[k].time = 0

(***************************************************************************)
(* C21.  A press line compiles to one NoteOn per key offset of each of its *)
(* presses ([0] Raw, [0,4] Fifth, [0,2,4] Major/Minor, [0,2,4,7]           *)
(* Major7/Minor7, from the major key of the root, the minor key for        *)
(* Minor/Minor7), in order, then exactly one Wait(Ticks(1)) whatever the   *)
(* number of presses and their duration modifiers, then End: `play c4M`    *)
(* gives notes 60, 64, 67 and `play e4M` 64, 68, 71, all yielded at time 0.*)
(***************************************************************************)
C21_ChordPressLine ==
    (Compiled /\ song \in LineSongs \cup ChordSongs) =>
       /\ result.status = "Ok"
       /\ ChordLineTrack(result.track, song[1].data)
       /\ song = <<PlayChord(0, 4, "Major")>> => NotesOf(result.track) = <<60, 64, 67>>
       /\ song = <<PlayChord(4, 4, "Major")>> => NotesOf(result.track) = <<64, 68, 71>>
       /\ \A k \in 1 .. Len(FreshRun(TickNanos)) : FreshRun(TickNanos)[k].time = 0

(***************************************************************************)
(* src/src/track/instructions.rs : the conversions of WaitTime, run alone  *)
(***************************************************************************)
\* the inputs: tempos from the slowest the model's integers can hold
\* (NANOS_PER_MINUTE / 28 is below 2^31) to the fastest, tick and beat
\* counts around the u16 limits, clock waits around one default tick
ConvBpmValues == {28, 60, 120, 60000, 65535}
ConvTpbValues == {1, 32, 1000, 65535}
ConvBpms == [beats_per_minute : ConvBpmValues, ticks_per_beat : ConvTpbValues]
ConvCounts == {1, 2, 137, 2047, 2048, 2049, 32767, 65535}
ConvClocks == {0, 1, 12, 13, 15624999, 15625000, 31250000, 2147483647}
ConvWaits ==
    {Ticks(n) : n \in ConvCounts} \cup {Beats(n) : n \in ConvCounts}
      \cup {Clock(d) : d \in ConvClocks}

\* the u64 duration of w under b is below 2^31
DurationFits(w, b) ==
    CASE w.kind = "Clock" -> TRUE
      [] w.kind = "Ticks" -> w.n <= 2147483647 \div tick_duration(b)
      [] w.kind = "Beats" ->
            /\ w.n <= 2147483647 \div b.ticks_per_beat
            /\ w.n * b.ticks_per_beat <= 2147483647 \div tick_duration(b)

\* the mathematical product of a Beats wait is below 2^31
ProductFits(w, b) == w.kind = "Beats" => w.n <= 2147483647 \div b.ticks_per_beat

\* WaitTime::as_ticks, Beats : b.get() * ticks_per_beat.get() passes u16
as_ticks_overflows(w, bpm_info) ==
    w.kind = "Beats" /\ w.n * bpm_info.ticks_per_beat > U16_MAX

\* WaitTime::as_ticks, Clock : the divisor is 0
as_ticks_divides_by_zero(w, bpm_info) ==
    w.kind = "Clock" /\ tick_duration(bpm_info) = 0

\* a call of WaitTime::as_ticks: the value, or the panic of a build with
\* overflow checks and of a division by zero
as_ticks_call(w, bpm_info, overflow_checks) ==
    IF as_ticks_divides_by_zero(w, bpm_info)
    THEN [ok |-> FALSE, v |-> 0, err |-> "DivideByZero"]
    ELSE IF overflow_checks /\ as_ticks_overflows(w, bpm_info)
    THEN [ok |-> FALSE, v |-> 0, err |-> "MultiplyOverflow"]
    ELSE [ok |-> TRUE, v |-> as_ticks(w, bpm_info), err |-> "none"]

ConvInit ==
    /\ song = <<>>
    /\ result = NoResult
    /\ cursor = None
    /\ iter = None
    /\ phase = "idle"
    /\ events = <<>>
    /\ hist = Hist0
    /\ multi = <<>>
    /\ driver = <<>>
    /\ control = <<>>
    /\ keys = <<>>
    /\ midi = <<>>
    /\ rt = <<>>
    /\ \E w \in ConvWaits, b \in ConvBpms :
          /\ ProductFits(w, b)
          /\ w.kind = "Ticks" => DurationFits(w, b)
          /\ conv = [wait |-> w, bpm |-> b, dur |-> None, back |-> None,
                     ticks |-> None]

\* everything but conv
notconv ==
    <<song, result, cursor, iter, phase, events, hist, multi, driver, control, keys,
      midi, rt>>

\* wait.as_ticks(bpm)
AsTicks ==
    /\ conv.ticks = None
    /\ \E overflow_checks \in BOOLEAN :
          conv' = [conv EXCEPT
                     !.ticks = Some(as_ticks_call(conv.wait, conv.bpm, overflow_checks))]
    /\ UNCHANGED notconv

\* wait.as_duration(bpm)
AsDuration ==
    /\ conv.dur = None
    /\ DurationFits(conv.wait, conv.bpm)
    /\ conv' = [conv EXCEPT !.dur = Some(as_duration(conv.wait, conv.bpm))]
    /\ UNCHANGED notconv

\* WaitTime::Clock(duration).as_ticks(bpm) on the duration as_duration gave
AsTicksBack ==
    /\ IsSome(conv.dur)
    /\ conv.back = None
    /\ \E overflow_checks \in BOOLEAN :
          conv' = [conv EXCEPT
                     !.back = Some(as_ticks_call(Clock(Unwrap(conv.dur)), conv.bpm,
                                                 overflow_checks))]
    /\ UNCHANGED notconv

ConvNext == AsTicks \/ AsDuration \/ AsTicksBack

ConvSpec == ConvInit /\ [][ConvNext]_vars

\* Lemma: the shortest tick, at the fastest tempo and the finest division,
\* is 13 ns: the divisor of the Clock conversion is never 0.
ShortestTick ==
    /\ tick_duration([beats_per_minute |-> U16_MAX, ticks_per_beat |-> U16_MAX]) = 13
    /\ \A b \in ConvBpms : tick_duration(b) >= 13

(***************************************************************************)
(* C22.  For every BpmInfo b and every n in 1 .. 65535, converting         *)
(* Ticks(n) to a duration under b and that duration, as a Clock wait, back *)
(* to ticks under b gives exactly n.                                       *)
(***************************************************************************)
C22_TicksRoundTrip ==
    (conv # <<>> /\ conv.wait.kind = "Ticks" /\ IsSome(conv.back)) =>
       /\ Unwrap(conv.back).ok
       /\ Unwrap(conv.back).v = conv.wait.n

\* the round trip of 65535 ticks at the fastest tempo and finest division
C22_Witness ==
    /\ conv # <<>>
    /\ conv.wait = Ticks(65535)
    /\ conv.bpm = [beats_per_minute |-> 65535, ticks_per_beat |-> 65535]
    /\ IsSome(conv.back)
    /\ Unwrap(conv.back).v = 65535

\* what the claim of C23 promises of wait w under b
Promised(w, b) ==
    CASE w.kind = "Ticks" -> w.n
      [] w.kind = "Beats" -> Min(w.n * b.ticks_per_beat, U16_MAX)
      [] w.kind = "Clock" ->
            LET q == w.n \div nanos_per_tick(b)
            IN  IF q < 1 THEN 1 ELSE Min(q, U16_MAX)

\* Lemma: the claim of C23 for the Ticks and Clock waits, and for the Beats
\* waits whose product fits a u16.
AsTicksWithinU16 ==
    (conv # <<>> /\ IsSome(conv.ticks) /\ ~as_ticks_overflows(conv.wait, conv.bpm)) =>
       /\ Unwrap(conv.ticks).ok
       /\ Unwrap(conv.ticks).v \in 1 .. U16_MAX
       /\ Unwrap(conv.ticks).v = Promised(conv.wait, conv.bpm)

(***************************************************************************)
(* C23.  WaitTime::as_ticks is total: for every WaitTime and BpmInfo it    *)
(* returns, without overflow or division by zero, a value in 1 .. 65535    *)
(* that is n for Ticks(n), min(n * ticks_per_beat, 65535) for Beats(n) and *)
(* floor(d / nanos_per_tick) clamped to 1 .. 65535 for Clock(d).           *)
(***************************************************************************)
C23_AsTicksTotal ==
    (conv # <<>> /\ IsSome(conv.ticks)) =>
       /\ Unwrap(conv.ticks).ok
       /\ Unwrap(conv.ticks).v \in 1 .. U16_MAX
       /\ Unwrap(conv.ticks).v = Promised(conv.wait, conv.bpm)

(***************************************************************************)
(* src/src/track/multicursor.rs : VecMultiCursor                           *)
(***************************************************************************)
\* the number of cursors a VecMultiCursor of the model wraps, at most
MaxCursors == 2

\* a TrackCursor::step_until(end) consumed to its end: the cursor it
\* leaves and the events it yielded (done: the iterator returned None)
RECURSIVE Drain(_, _, _, _)
Drain(c, end, fuel, acc) ==
    IF fuel = 0 THEN [c |-> c, out |-> acc, done |-> FALSE]
    ELSE IF past_end(c.cur_time, end) THEN [c |-> c, out |-> acc, done |-> TRUE]
    ELSE LET res == step(c, FALSE) IN
         IF ~res.ok THEN [c |-> c, out |-> acc, done |-> FALSE]
         ELSE IF res.out.kind = "End" THEN [c |-> res.c, out |-> acc, done |-> TRUE]
         ELSE Drain(res.c, end, fuel - 1,
                    IF res.out.kind = "Message"
                    THEN Append(acc, [time |-> res.out.time, port |-> res.out.port,
                                      msg |-> res.out.msg])
                    ELSE acc)

\* cursor_mapper tagging every event with the first index
cursor_mapper_untagged(idx, evs) ==
    [k \in 1 .. Len(evs) |->
        [time |-> evs[k].time, port |-> <<0, evs[k].port>>, msg |-> evs[k].msg]]

\* the closure cursor_mapper of step_until: the events of the cursor at
\* idx, each with the port (idx, port)
cursor_mapper(idx, evs) ==
    [k \in 1 .. Len(evs) |->
        [time |-> evs[k].time, port |-> <<idx, evs[k].port>>, msg |-> evs[k].msg]]

\* self.cursors.iter_mut().enumerate().flat_map(cursor_mapper), consumed
RECURSIVE flat_map(_, _, _)
flat_map(cursors, end, idx) ==
    IF idx >= Len(cursors) THEN <<>>
    ELSE cursor_mapper(idx, Drain(cursors[idx + 1], end, MaxFuel, <<>>).out)
           \o flat_map(cursors, end, idx + 1)

\* step_until driving the later cursors up to the clock the first one reached
VecMultiCursor_step_until_synced(cursors, end) ==
    LET first == Drain(cursors[1], end, MaxFuel, <<>>).c.cur_time
        upto(i) == IF i = 1 \/ first < end THEN end ELSE first
    IN  [cursors |-> [i \in 1 .. Len(cursors) |->
                         Drain(cursors[i], upto(i), MaxFuel, <<>>).c],
         out |-> flat_map(cursors, end, 0),
         done |-> \A i \in 1 .. Len(cursors) :
                     Drain(cursors[i], upto(i), MaxFuel, <<>>).done]

\* VecMultiCursor::step_until, fully consumed
VecMultiCursor_step_until(cursors, end) ==
    [cursors |-> [i \in 1 .. Len(cursors) |-> Drain(cursors[i], end, MaxFuel, <<>>).c],
     out |-> flat_map(cursors, end, 0),
     done |-> \A i \in 1 .. Len(cursors) : Drain(cursors[i], end, MaxFuel, <<>>).done]

\* VecMultiCursor::cur_clock
VecMultiCursor_cur_clock(cursors) ==
    IF cursors = <<>> THEN 0
    ELSE CHOOSE t \in {cursors[i].cur_time : i \in 1 .. Len(cursors)} :
            \A i \in 1 .. Len(cursors) : t >= cursors[i].cur_time

\* reset reaching the first cursor only
VecMultiCursor_reset_first(cursors) ==
    [i \in 1 .. Len(cursors) |-> IF i = 1 THEN reset(cursors[i]).c ELSE cursors[i]]

\* VecMultiCursor::reset
VecMultiCursor_reset(cursors) == [i \in 1 .. Len(cursors) |-> reset(cursors[i]).c]

\* the tracks of the cursors: `play c4` and `play e4` as the compiler lays
\* them out, a sequence of two notes, and two unbounded loops that wait one
\* and three ticks per pass
G4On == NoteOn(0, 67, 90)
A4On == NoteOn(0, 69, 90)
B4On == NoteOn(0, 71, 90)
TrackC4 == <<SendMessage(C4On, 0), Wait(Ticks(1)), End>>
TrackE4 == <<SendMessage(E4On, 0), Wait(Ticks(1)), End>>
TrackTwo == <<SendMessage(G4On, 0), Wait(Ticks(1)), SendMessage(G4On, 1),
              Wait(Ticks(2)), End>>
TrackLoop1 == <<SendMessage(A4On, 0), Wait(Ticks(1)), Jump(0, None), End>>
TrackLoop3 == <<SendMessage(B4On, 1), Wait(Ticks(3)), Jump(0, None), End>>
MultiTracks == {TrackC4, TrackE4, TrackTwo, TrackLoop1, TrackLoop3}

MultiInit ==
    /\ song = <<>>
    /\ result = NoResult
    /\ cursor = None
    /\ iter = None
    /\ phase = "idle"
    /\ events = <<>>
    /\ hist = Hist0
    /\ conv = <<>>
    /\ driver = <<>>
    /\ control = <<>>
    /\ keys = <<>>
    /\ midi = <<>>
    /\ rt = <<>>
    /\ \E tracks \in SeqsUpTo(MultiTracks, MaxCursors) :
          multi = [cursors |-> [i \in 1 .. Len(tracks) |-> TrackCursor_new(tracks[i])],
                   \* history: the last operation and its end (-1: none), the
                   \* cursors before it, the events it yielded
                   op |-> "new", end |-> 0 - 1,
                   before |-> [i \in 1 .. Len(tracks) |-> TrackCursor_new(tracks[i])],
                   out |-> <<>>,
                   \* one standalone TrackCursor per track, given the same
                   \* calls, and what each yielded in the last call
                   alone |-> [i \in 1 .. Len(tracks) |-> TrackCursor_new(tracks[i])],
                   alone_out |-> [i \in 1 .. Len(tracks) |-> <<>>]]

notmulti ==
    <<song, result, cursor, iter, phase, events, hist, conv, driver, control, keys,
      midi, rt>>

\* multi.step_until(end), the iterator consumed to its end
MultiStepUntil ==
    /\ \E end \in Ends :
          LET r == VecMultiCursor_step_until(multi.cursors, end) IN
          /\ r.done
          /\ multi' = [cursors |-> r.cursors, op |-> "step_until", end |-> end,
                       before |-> multi.cursors, out |-> r.out,
                       alone |-> [i \in 1 .. Len(multi.alone) |->
                                    Drain(multi.alone[i], end, MaxFuel, <<>>).c],
                       alone_out |-> [i \in 1 .. Len(multi.alone) |->
                                        Drain(multi.alone[i], end, MaxFuel, <<>>).out]]
    /\ UNCHANGED notmulti

\* multi.reset()
MultiReset ==
    /\ multi.op # "new"
    /\ multi' = [cursors |-> VecMultiCursor_reset(multi.cursors), op |-> "reset",
                 end |-> 0 - 1, before |-> multi.cursors, out |-> <<>>,
                 alone |-> [i \in 1 .. Len(multi.alone) |-> reset(multi.alone[i]).c],
                 alone_out |-> [i \in 1 .. Len(multi.alone) |-> <<>>]]
    /\ UNCHANGED notmulti

MultiNext == MultiStepUntil \/ MultiReset

MultiSpec == MultiInit /\ [][MultiNext]_vars

\* the cursor stands on End
OnEnd(c) == c.data[c.instruction_pointer + 1].op = "End"

\* the events of out that carry track index idx, without the index
OfTrack(out, idx) ==
    LET mine == SelectSeq(out, LAMBDA e : e.port[1] = idx)
    IN  [k \in 1 .. Len(mine) |->
            [time |-> mine[k].time, port |-> mine[k].port[2], msg |-> mine[k].msg]]

\* track t sends message msg to port p somewhere
Sends(t, p, msg) ==
    \E k \in 1 .. Len(t) : t[k] = SendMessage(msg, p)

(***************************************************************************)
(* C24.  One fully consumed VecMultiCursor::step_until(end) yields events  *)
(* track-major: the events of the cursor at index i precede those of every *)
(* cursor at a higher index, each event carries (track_index, port) of the *)
(* cursor that produced it, and the events of one track are in that        *)
(* cursor's chronological order; for `play c4`, `play e4` and end = 1 tick *)
(* the output is exactly (0, (0, 0), NoteOn 60), (0, (1, 0), NoteOn 64).   *)
(***************************************************************************)
C24_TrackMajor ==
    (multi # <<>> /\ multi.op = "step_until") =>
       LET out == multi.out IN
       /\ \A p, q \in 1 .. Len(out) : p < q => out[p].port[1] <= out[q].port[1]
       /\ \A p \in 1 .. Len(out) :
             /\ out[p].port[1] \in 0 .. Len(multi.cursors) - 1
             /\ Sends(multi.cursors[out[p].port[1] + 1].data, out[p].port[2],
                      out[p].msg)
       /\ \A i \in 1 .. Len(multi.cursors) :
             /\ OfTrack(out, i - 1) = RunUntil(multi.before[i], multi.end, MaxFuel, <<>>)
             /\ \A p, q \in 1 .. Len(OfTrack(out, i - 1)) :
                   p < q => OfTrack(out, i - 1)[p].time <= OfTrack(out, i - 1)[q].time
       /\ (multi.before = <<TrackCursor_new(TrackC4), TrackCursor_new(TrackE4)>>
             /\ multi.end = TickNanos)
            => out = <<[time |-> 0, port |-> <<0, 0>>, msg |-> C4On],
                       [time |-> 0, port |-> <<1, 0>>, msg |-> E4On]>>

\* the scenario of the two single-note tracks
C24_Witness ==
    /\ multi # <<>>
    /\ multi.op = "step_until"
    /\ multi.before = <<TrackCursor_new(TrackC4), TrackCursor_new(TrackE4)>>
    /\ multi.end = TickNanos
    /\ Len(multi.out) = 2

\* Lemma: after every fully consumed step_until(end), each wrapped cursor
\* stands on End or has a clock_time above end, and cur_clock() is the
\* largest of the clocks (0 when there are no cursors).
ClocksPastEnd ==
    (multi # <<>> /\ multi.op = "step_until") =>
       /\ \A i \in 1 .. Len(multi.cursors) :
             /\ OnEnd(multi.cursors[i]) \/ multi.cursors[i].cur_time > multi.end
             /\ multi.cursors[i].cur_time <= VecMultiCursor_cur_clock(multi.cursors)
       /\ multi.cursors # <<>> =>
             \E i \in 1 .. Len(multi.cursors) :
                multi.cursors[i].cur_time = VecMultiCursor_cur_clock(multi.cursors)
       /\ multi.cursors = <<>> => VecMultiCursor_cur_clock(multi.cursors) = 0

(***************************************************************************)
(* C25.  After every fully consumed step_until(end) on cursors that have   *)
(* not reached End, all wrapped cursors have the same clock_time, and      *)
(* cur_clock() equals the clock of each cursor.                            *)
(***************************************************************************)
C25_ClocksEqual ==
    (multi # <<>> /\ multi.op = "step_until"
        /\ \A i \in 1 .. Len(multi.cursors) : ~OnEnd(multi.cursors[i])) =>
       \A i \in 1 .. Len(multi.cursors) :
          multi.cursors[i].cur_time = VecMultiCursor_cur_clock(multi.cursors)

(***************************************************************************)
(* src/src/track.rs : the TrackCursor that main drives                     *)
(***************************************************************************)
\* TrackCursor::new of track.rs; jump_counts is the sorted Vec of
\* (index, count) pairs that step searches by index, here a map
TrackCursor_new_track_rs(data) ==
    [instruction_pointer |-> 0,
     cur_bpm |-> DefaultBpm,
     cur_time |-> 0,
     jump_counts |-> finite_jumps(data),
     data |-> data]

\* TrackCursor::step of track.rs, the arms of Jump
step_Jump_track_rs(c, target, count) ==
    IF ~IsSome(count)
    THEN StepOk(StepContinue, [c EXCEPT !.instruction_pointer = target])
    ELSE IF c.instruction_pointer \notin DOMAIN c.jump_counts
    THEN StepErr([kind |-> "JumpIdxNotFound", target |-> c.instruction_pointer], c)
    ELSE IF c.jump_counts[c.instruction_pointer] = 0
    THEN StepOk(StepContinue,
                [c EXCEPT !.jump_counts[c.instruction_pointer] = Unwrap(count),
                          !.instruction_pointer = c.instruction_pointer + 1])
    ELSE StepOk(StepContinue,
                [c EXCEPT !.jump_counts[c.instruction_pointer] = @ - 1,
                          !.instruction_pointer = target])

\* TrackCursor::step of track.rs
step_track_rs(c) ==
    LET next_evt == TrackGet(c.data, c.instruction_pointer)
    IN  IF ~IsSome(next_evt)
        THEN StepErr([kind |-> "BadInstrPointer", ip |-> c.instruction_pointer], c)
        ELSE LET evt == Unwrap(next_evt) IN
          CASE evt.op = "End" -> StepOk(StepEnd, c)
            [] evt.op = "SetBpm" ->
                 StepOk(StepContinue,
                        [c EXCEPT !.cur_bpm = evt.bpm,
                                  !.instruction_pointer = c.instruction_pointer + 1])
            [] evt.op = "SendMessage" ->
                 StepOk(StepMessage(c.cur_time, evt.port, evt.message),
                        [c EXCEPT !.instruction_pointer = c.instruction_pointer + 1])
            [] evt.op = "Wait" ->
                 StepOk(StepContinue,
                        [c EXCEPT !.instruction_pointer = c.instruction_pointer + 1,
                                  !.cur_time = c.cur_time + as_duration(evt.time, c.cur_bpm)])
            [] evt.op = "Jump" -> step_Jump_track_rs(c, evt.target, evt.count)

\* events_in_range : `while self.cur_time < start`, whose events are dropped
\* (dropped: how many of the steps it made returned a Message)
RECURSIVE skip_to_start_from(_, _, _, _)
skip_to_start_from(c, start, fuel, dropped) ==
    IF fuel = 0 THEN [c |-> c, ok |-> FALSE, dropped |-> dropped]
    ELSE IF ~(c.cur_time < start) THEN [c |-> c, ok |-> TRUE, dropped |-> dropped]
    ELSE LET res == step_track_rs(c) IN
         IF ~res.ok THEN [c |-> c, ok |-> FALSE, dropped |-> dropped]
         ELSE IF res.out.kind = "End"
         THEN [c |-> res.c, ok |-> TRUE, dropped |-> dropped]
         ELSE skip_to_start_from(res.c, start, fuel - 1,
                                 IF res.out.kind = "Message"
                                 THEN dropped + 1 ELSE dropped)

skip_to_start(c, start, fuel) == skip_to_start_from(c, start, fuel, 0)

\* events_in_range : the iterator, consumed to its end
RECURSIVE iter_in_range(_, _, _, _)
iter_in_range(c, end, fuel, acc) ==
    IF fuel = 0 THEN [c |-> c, out |-> acc, ok |-> FALSE]
    ELSE IF c.cur_time > end THEN [c |-> c, out |-> acc, ok |-> TRUE]
    ELSE LET res == step_track_rs(c) IN
         IF ~res.ok THEN [c |-> c, out |-> acc, ok |-> FALSE]
         ELSE IF res.out.kind = "End" THEN [c |-> res.c, out |-> acc, ok |-> TRUE]
         ELSE iter_in_range(res.c, end, fuel - 1,
                    IF res.out.kind = "Message"
                    THEN Append(acc, [time |-> res.out.time, port |-> res.out.port,
                                      msg |-> res.out.msg])
                    ELSE acc)

\* the iterator of events_in_range on the cursor the while loop left
events_in_range_from(s, end) ==
    IF ~s.ok THEN [c |-> s.c, out |-> <<>>, ok |-> FALSE, dropped |-> s.dropped]
    ELSE [c |-> iter_in_range(s.c, end, MaxFuel, <<>>).c,
          out |-> iter_in_range(s.c, end, MaxFuel, <<>>).out,
          ok |-> iter_in_range(s.c, end, MaxFuel, <<>>).ok,
          dropped |-> s.dropped]

\* TrackCursor::events_in_range, consumed to its end
events_in_range(c, start, end) ==
    events_in_range_from(skip_to_start(c, start, MaxFuel), end)

(***************************************************************************)
(* src/src/main.rs : the process callback and the host it runs under       *)
(***************************************************************************)
\* the cycles the model lets the host run
MaxCycles == 4
\* the events a cycle's buffers have room for, when the host is short of it
ShortRoom == 1

\* the host's clock: one frame lasts FrameUsecs microseconds;
\* Client::time_to_frames and Client::frames_to_time
FrameUsecs == 3125
time_to_frames(usecs) == usecs \div FrameUsecs
frames_to_time(frames) == frames * FrameUsecs

\* the frame time at activation, the frames per cycle, the room per cycle
StartFrames == {0, 7}
PeriodFrames == {2, 5}
Rooms == {ShortRoom, MaxOut}
\* the frames the host skips between two cycles: none, or MaxGap of them
\* when it missed its deadline
MaxGap == 5
GapFrames == {0, MaxGap}

\* Duration::from_micros, Duration::as_micros, on nanoseconds
from_micros(usecs) == usecs * 1000
as_micros(nanos) == nanos \div 1000

\* a.checked_sub(b).unwrap_or_default()
checked_sub_or_default(a, b) == IF a >= b THEN a - b ELSE 0

\* a.saturating_sub(b)
saturating_sub(a, b) == IF a >= b THEN a - b ELSE 0

\* start_usecs captured anew in every cycle
get_or_insert_always(start_usecs, cur_usecs) == cur_usecs

\* start_usecs.get_or_insert(cur_usecs) : the value the Option holds after
get_or_insert(start_usecs, cur_usecs) ==
    IF IsSome(start_usecs) THEN Unwrap(start_usecs) ELSE cur_usecs

\* the body of the `for evt in ...` loop up to the write: the RawMidi of
\* one event and the port whose writer takes it
RawMidiOf(evt, start_time, cur_frames) ==
    [time |-> saturating_sub(time_to_frames(as_micros(evt.time) + as_micros(start_time)),
                             cur_frames),
     port |-> evt.port,
     bytes |-> evt.msg,
     \* history: the track time of the event
     at |-> evt.time]

\* the tracks main builds from asm items: three notes a tick apart, a
\* counted loop, notes at clock waits off the frame grid
DriverTrackTicks ==
    <<SendMessage(C4On, 0), Wait(Ticks(1)), SendMessage(E4On, 0), Wait(Ticks(1)),
      SendMessage(G4On, 0), Wait(Ticks(1)), End>>
DriverTrackLoop ==
    <<SendMessage(A4On, 0), Wait(Ticks(1)), Jump(0, Some(2)), End>>
DriverTrackClock ==
    <<SendMessage(C4On, 0), Wait(Clock(10000000)), SendMessage(E4On, 1),
      Wait(Clock(7000500)), SendMessage(G4On, 0), Wait(Clock(40000000)), End>>
DriverTracks == {DriverTrackTicks, DriverTrackLoop, DriverTrackClock}

\* the cycle the callback ran last (none yet: n_frames = 0)
NoCycle ==
    [cur_frames |-> 0, n_frames |-> 0, cur_usecs |-> 0, nxt_usecs |-> 0,
     track_end |-> 0, written |-> <<>>, dropped |-> 0]

DriverInit ==
    /\ song = <<>>
    /\ result = NoResult
    /\ cursor = None
    /\ iter = None
    /\ phase = "idle"
    /\ events = <<>>
    /\ hist = Hist0
    /\ conv = <<>>
    /\ multi = <<>>
    /\ control = <<>>
    /\ keys = <<>>
    /\ midi = <<>>
    /\ rt = <<>>
    /\ \E track \in DriverTracks, frames \in StartFrames :
          driver = [status |-> "running",
                    start_usecs |-> None,
                    cursor |-> TrackCursor_new_track_rs(track),
                    \* the host: the frame time of the next cycle
                    frames |-> frames,
                    \* history
                    cycles |-> 0,
                    cycle |-> NoCycle,
                    previous |-> NoCycle,
                    first_usecs |-> None]

notdriver ==
    <<song, result, cursor, iter, phase, events, hist, conv, multi, control, keys,
      midi, rt>>

\* the callback after the cursor ran: r is what events_in_range did, the
\* first `room` events are written, a further one finds NotEnoughSpace
process_write(d, n_frames, room, start, nxt_time, r) ==
    [status |-> IF r.ok /\ Len(r.out) <= room THEN "running" ELSE "panicked",
     start_usecs |-> Some(start),
     cursor |-> r.c,
     frames |-> d.frames + n_frames,
     cycles |-> d.cycles + 1,
     cycle |-> [cur_frames |-> d.frames, n_frames |-> n_frames,
                cur_usecs |-> frames_to_time(d.frames),
                nxt_usecs |-> frames_to_time(d.frames + n_frames),
                track_end |-> nxt_time,
                written |-> [k \in 1 .. Min(Len(r.out), room) |->
                                RawMidiOf(r.out[k], from_micros(start), d.frames)],
                \* history: the messages the cursor executed on its way to
                \* the start of the window
                dropped |-> r.dropped],
     previous |-> d.cycle,
     first_usecs |-> IF d.cycles = 0 THEN Some(frames_to_time(d.frames))
                     ELSE d.first_usecs]

\* the callback from the times on: cur_time, nxt_time and the cursor's run
process_times(d, n_frames, room, start, cur_usecs, nxt_usecs) ==
    process_write(d, n_frames, room, start,
                  checked_sub_or_default(from_micros(nxt_usecs), from_micros(start)),
                  events_in_range(d.cursor,
                     checked_sub_or_default(from_micros(cur_usecs), from_micros(start)),
                     checked_sub_or_default(from_micros(nxt_usecs), from_micros(start))))

\* the closure cb: one cycle of n_frames frames
process(d, n_frames, room) ==
    process_times(d, n_frames, room,
                  get_or_insert(d.start_usecs, frames_to_time(d.frames)),
                  frames_to_time(d.frames), frames_to_time(d.frames + n_frames))

ProcessCycle ==
    /\ driver.status = "running"
    /\ driver.cycles < MaxCycles
    /\ \E n_frames \in PeriodFrames, room \in Rooms, gap \in GapFrames :
          driver' = process([driver EXCEPT
                                !.frames = IF driver.cycles = 0 THEN @ ELSE @ + gap],
                            n_frames, room)
    /\ UNCHANGED notdriver

DriverNext == ProcessCycle

DriverSpec == DriverInit /\ [][DriverNext]_vars

\* the callback has run a cycle
Cycled == driver # <<>> /\ driver.cycles > 0

\* the frame offset the contract gives an event of track time `at`
ContractOffset(at) ==
    LET sys_frames == time_to_frames(as_micros(at) + Unwrap(driver.start_usecs))
    IN  IF sys_frames >= driver.cycle.cur_frames
        THEN sys_frames - driver.cycle.cur_frames ELSE 0

\* Lemma: every event written in a cycle has the contract's frame offset,
\* which is at most n_frames, and is n_frames only for an event whose track
\* time is the cycle's track_end.
OffsetWithinOrAtEnd ==
    Cycled =>
       \A k \in 1 .. Len(driver.cycle.written) :
          LET w == driver.cycle.written[k] IN
          /\ w.time = ContractOffset(w.at)
          /\ w.time <= driver.cycle.n_frames
          /\ w.time = driver.cycle.n_frames => w.at = driver.cycle.track_end

(***************************************************************************)
(* C26.  In every cycle covering the frames cur_frames up to, not          *)
(* including, cur_frames + n_frames, every event the driver writes has     *)
(* frame_offset = time_to_frames(time + start_usecs) - cur_frames,         *)
(* saturating at 0, with 0 <= frame_offset < n_frames: an event whose      *)
(* track time is the cycle's track_end is not written at offset n_frames.  *)
(***************************************************************************)
C26_OffsetInCycle ==
    Cycled =>
       \A k \in 1 .. Len(driver.cycle.written) :
          LET w == driver.cycle.written[k] IN
          /\ w.time = ContractOffset(w.at)
          /\ 0 <= w.time
          /\ w.time < driver.cycle.n_frames

(***************************************************************************)
(* C27.  start_usecs is captured once, as cur_usecs of the first cycle,    *)
(* and is the same in every later cycle; each cycle drives the cursor to   *)
(* track_end = next_usecs - start_usecs, saturating at zero, and track_end *)
(* does not decrease from a cycle to the next when next_usecs does not.    *)
(***************************************************************************)
C27_StartCapturedOnce ==
    Cycled =>
       /\ IsSome(driver.start_usecs)
       /\ driver.start_usecs = driver.first_usecs
       /\ driver.cycle.track_end
             = from_micros(IF driver.cycle.nxt_usecs >= Unwrap(driver.start_usecs)
                           THEN driver.cycle.nxt_usecs - Unwrap(driver.start_usecs)
                           ELSE 0)
       /\ driver.status = "running" =>
             \/ OnEnd(driver.cursor)
             \/ driver.cursor.cur_time > driver.cycle.track_end
       /\ (driver.cycles > 1 /\ driver.previous.nxt_usecs <= driver.cycle.nxt_usecs)
             => driver.previous.track_end <= driver.cycle.track_end

\* a third cycle, started later than the first, under the first's start
C27_Witness ==
    /\ Cycled
    /\ driver.cycles = 3
    /\ driver.status = "running"
    /\ driver.start_usecs = Some(frames_to_time(7))
    /\ driver.cycle.cur_usecs > frames_to_time(7)
    /\ driver.cycle.track_end > driver.previous.track_end
    /\ driver.cycle.written # <<>>

(***************************************************************************)
(* The driver with its control plane: the realtime callback over a         *)
(* VecMultiCursor, and the control thread that sets the two atomic flags   *)
(***************************************************************************)
\* the commands the control thread reads, at most
MaxCommands == 3

\* restart consumption: the flag is atomically swapped from true to false;
\* ok: the swap found true
swap_to_false(flag) == [ok |-> flag, flag |-> FALSE]

\* a paused cycle leaving start_usecs as it is
advance_start_skip(start_usecs, cur_usecs, nxt_usecs) == start_usecs

\* pause: start_usecs advances by the cycle's clock time
advance_start(start_usecs, cur_usecs, nxt_usecs) ==
    IF IsSome(start_usecs) THEN Some(Unwrap(start_usecs) + (nxt_usecs - cur_usecs))
    ELSE None

\* the two tracks the control model plays
ControlTracks == {<<TrackTwo, TrackLoop1>>, <<TrackLoop3>>, <<TrackC4, TrackE4>>}

FreshCursors(tracks) == [i \in 1 .. Len(tracks) |-> TrackCursor_new(tracks[i])]

\* the cycle the callback finished last (none yet: n_frames = 0)
NoControlCycle ==
    [cur_frames |-> 0, n_frames |-> 0, cur_usecs |-> 0, nxt_usecs |-> 0,
     swapped |-> FALSE, burst |-> FALSE, paused |-> FALSE, stepped |-> FALSE,
     track_end |-> 0, written |-> <<>>]

ControlInit ==
    /\ song = <<>>
    /\ result = NoResult
    /\ cursor = None
    /\ iter = None
    /\ phase = "idle"
    /\ events = <<>>
    /\ hist = Hist0
    /\ conv = <<>>
    /\ multi = <<>>
    /\ driver = <<>>
    /\ keys = <<>>
    /\ midi = <<>>
    /\ rt = <<>>
    /\ \E tracks \in ControlTracks, frames \in StartFrames :
          control = [\* the two atomic flags
                     paused |-> FALSE,
                     restart |-> FALSE,
                     \* the callback: "idle" between cycles, "polled" after
                     \* the restart poll of a cycle
                     pc |-> "idle",
                     start_usecs |-> None,
                     cursors |-> FreshCursors(tracks),
                     \* the host: frame time and length of the next cycle
                     frames |-> frames,
                     n_frames |-> 0,
                     \* history
                     tracks |-> tracks,
                     cycles |-> 0,
                     commands |-> 0,
                     requests |-> 0,   \* restart requests made
                     pending |-> 0,    \* ... since the last successful swap
                     bursts |-> 0,     \* safety bursts emitted
                     resets |-> 0,     \* multi.reset() calls
                     played |-> 0,     \* usecs of the unpaused cycles
                     emitted |-> 0,    \* events written, both since the last
                                       \* capture of start_usecs
                     paused_cycles |-> 0,
                     \* what the poll of the current cycle did and left
                     poll |-> [swapped |-> FALSE, burst |-> FALSE,
                               start_usecs |-> None, cursors |-> <<>>],
                     cycle |-> NoControlCycle]

notcontrol ==
    <<song, result, cursor, iter, phase, events, hist, conv, multi, driver, keys,
      midi, rt>>

\* control thread, `r` : request a restart
RequestRestart ==
    /\ control.commands < MaxCommands
    /\ control' = [control EXCEPT !.restart = TRUE,
                                  !.commands = @ + 1,
                                  !.requests = @ + 1,
                                  !.pending = @ + 1]
    /\ UNCHANGED notcontrol

\* control thread, `p` : toggle pause
TogglePause ==
    /\ control.commands < MaxCommands
    /\ control' = [control EXCEPT !.paused = ~control.paused,
                                  !.commands = @ + 1]
    /\ UNCHANGED notcontrol

\* the callback after the swap sw of the restart flag: on success the
\* safety burst, multi.reset() and the clearing of start_usecs
poll_restart(d, n_frames, sw) ==
    [d EXCEPT !.restart = sw.flag,
              !.pc = "polled",
              !.n_frames = n_frames,
              !.cursors = IF sw.ok THEN VecMultiCursor_reset(d.cursors) ELSE d.cursors,
              !.start_usecs = IF sw.ok THEN None ELSE d.start_usecs,
              !.pending = IF sw.ok THEN 0 ELSE d.pending,
              !.bursts = IF sw.ok THEN d.bursts + 1 ELSE d.bursts,
              !.resets = IF sw.ok THEN d.resets + 1 ELSE d.resets,
              !.played = IF sw.ok THEN 0 ELSE d.played,
              !.emitted = IF sw.ok THEN 0 ELSE d.emitted,
               !.poll = [swapped |-> sw.ok, burst |-> sw.ok,
                        start_usecs |-> IF sw.ok THEN None ELSE d.start_usecs,
                        cursors |-> IF sw.ok THEN VecMultiCursor_reset(d.cursors)
                                    ELSE d.cursors]]

\* the callback, start of a cycle: the restart flag is polled once
CyclePoll ==
    /\ control.pc = "idle"
    /\ control.cycles < MaxCycles
    /\ \E n_frames \in PeriodFrames :
          control' = poll_restart(control, n_frames, swap_to_false(control.restart))
    /\ UNCHANGED notcontrol

\* the record of a finished cycle
ControlCycle(d, paused, track_end, written) ==
    [cur_frames |-> d.frames, n_frames |-> d.n_frames,
     cur_usecs |-> frames_to_time(d.frames),
     nxt_usecs |-> frames_to_time(d.frames + d.n_frames),
     swapped |-> d.poll.swapped, burst |-> d.poll.burst,
     paused |-> paused, stepped |-> ~paused,
     track_end |-> track_end, written |-> written]

\* a paused cycle: start_usecs advances, no cursor is stepped
cycle_paused(d, cur_usecs, nxt_usecs) ==
    [d EXCEPT !.pc = "idle",
              !.start_usecs = advance_start(d.start_usecs, cur_usecs, nxt_usecs),
              !.frames = d.frames + d.n_frames,
              !.cycles = d.cycles + 1,
              !.paused_cycles = d.paused_cycles + 1,
              !.cycle = ControlCycle(d, TRUE, 0, <<>>)]

\* an unpaused cycle after multi.step_until(track_end) gave r
cycle_write(d, start, cur_usecs, nxt_usecs, track_end, r) ==
    [d EXCEPT !.pc = "idle",
              !.start_usecs = Some(start),
              !.cursors = r.cursors,
              !.frames = d.frames + d.n_frames,
              !.cycles = d.cycles + 1,
              !.played = d.played + (nxt_usecs - cur_usecs),
              !.emitted = d.emitted + Len(r.out),
              !.cycle = ControlCycle(d, FALSE, track_end,
                           [k \in 1 .. Len(r.out) |->
                               RawMidiOf(r.out[k], from_micros(start), d.frames)])]

\* an unpaused cycle from the captured start on
cycle_step(d, start, cur_usecs, nxt_usecs) ==
    cycle_write(d, start, cur_usecs, nxt_usecs,
                checked_sub_or_default(from_micros(nxt_usecs), from_micros(start)),
                VecMultiCursor_step_until(d.cursors,
                   checked_sub_or_default(from_micros(nxt_usecs), from_micros(start))))

\* the rest of a cycle, with the value read from the paused flag
cycle_run(d, paused, cur_usecs, nxt_usecs) ==
    IF paused THEN cycle_paused(d, cur_usecs, nxt_usecs)
    ELSE cycle_step(d, get_or_insert(d.start_usecs, cur_usecs), cur_usecs, nxt_usecs)

\* the callback, after the poll: the paused flag is read and the cycle runs
CycleRun ==
    /\ control.pc = "polled"
    /\ control' = cycle_run(control, control.paused, frames_to_time(control.frames),
                            frames_to_time(control.frames + control.n_frames))
    /\ UNCHANGED notcontrol

ControlNext == RequestRestart \/ TogglePause \/ CyclePoll \/ CycleRun

ControlSpec == ControlInit /\ [][ControlNext]_vars

\* the callback finished a cycle and has not begun the next
CycleDone == control # <<>> /\ control.pc = "idle" /\ control.cycles > 0

\* a multi-cursor that never paused, driven once to the track time played
Unpaused == VecMultiCursor_step_until(FreshCursors(control.tracks),
                                      from_micros(control.played))

(***************************************************************************)
(* C28.  A cycle that finds the paused flag set steps no cursor, emits no  *)
(* event and advances start_usecs by next_usecs - cur_usecs, so that after *)
(* any number of paused cycles the next unpaused cycle resumes at the      *)
(* track time it would have without them: track_end is the clock time of   *)
(* the unpaused cycles alone, and cursors and events are those of a        *)
(* driver that was never paused.                                           *)
(***************************************************************************)
C28_PauseKeepsTrackTime ==
    CycleDone =>
       /\ control.cycle.paused =>
             /\ ~control.cycle.stepped
             /\ control.cycle.written = <<>>
             /\ control.cursors = control.poll.cursors
             /\ control.start_usecs
                  = IF IsSome(control.poll.start_usecs)
                    THEN Some(Unwrap(control.poll.start_usecs)
                                + (control.cycle.nxt_usecs - control.cycle.cur_usecs))
                    ELSE None
       /\ ~control.cycle.paused =>
             /\ control.cycle.track_end = from_micros(control.played)
             /\ control.cursors = Unpaused.cursors
             /\ control.emitted = Len(Unpaused.out)

\* an unpaused cycle that emits, after an unpaused and a paused cycle
C28_Witness ==
    /\ CycleDone
    /\ control.cycles = 3
    /\ control.paused_cycles = 1
    /\ control.requests = 0
    /\ ~control.cycle.paused
    /\ control.cycle.written # <<>>
    /\ control.emitted > Len(control.cycle.written)

(***************************************************************************)
(* C29.  Under every interleaving of the control thread, which sets        *)
(* restart-requested, and the callback, which polls it once at the start   *)
(* of each cycle with an atomic swap from true to false: a request is      *)
(* never lost (the flag stays set until a swap takes it), a single request *)
(* triggers the safety burst, multi.reset() and the clearing of            *)
(* start_usecs in exactly one cycle, and no burst or reset happens in a    *)
(* cycle whose swap did not succeed.                                       *)
(***************************************************************************)
C29_RestartConsumedOnce ==
    control # <<>> =>
       /\ control.restart <=> control.pending > 0
       /\ control.bursts <= control.requests
       /\ control.bursts = control.resets
       /\ control.requests > control.pending => control.bursts >= 1
       /\ control.requests = 1 => control.bursts = 1 - control.pending
       /\ control.pc = "polled" =>
             /\ control.poll.burst <=> control.poll.swapped
             /\ control.poll.swapped =>
                   /\ control.start_usecs = None
                   /\ control.cursors = FreshCursors(control.tracks)
       /\ CycleDone =>
             /\ control.cycle.burst <=> control.cycle.swapped
             /\ (control.cycle.swapped /\ control.cycle.stepped) =>
                   /\ control.start_usecs = Some(control.cycle.cur_usecs)
                   /\ control.cursors
                        = VecMultiCursor_step_until(FreshCursors(control.tracks),
                                                    control.cycle.track_end).cursors

\* the poll of the third cycle takes the one request made, after two
\* cycles of playback on two tracks
C29_Witness ==
    /\ control # <<>>
    /\ control.pc = "polled"
    /\ control.cycles = 2
    /\ control.poll.swapped
    /\ control.requests = 1
    /\ control.bursts = 1
    /\ ~control.restart
    /\ Len(control.tracks) = 2
    /\ control.cycle.written # <<>>

(***************************************************************************)
(* src/src/model.rs : minor keys and their relative major                  *)
(***************************************************************************)
\* the offsets r.shift(offset) is called with: an octave down to an octave up
MaxShift == 12
KeyOffsets == (0 - MaxShift) .. MaxShift

\* keys: a root class r and an offset, then NoteKey::minor(r),
\* NoteKey::major(r.shift(offset)) and minor.equivalent(&major), each None
\* until it is computed
KeyInit ==
    /\ song = <<>>
    /\ result = NoResult
    /\ cursor = None
    /\ iter = None
    /\ phase = "idle"
    /\ events = <<>>
    /\ hist = Hist0
    /\ conv = <<>>
    /\ multi = <<>>
    /\ driver = <<>>
    /\ control = <<>>
    /\ midi = <<>>
    /\ rt = <<>>
    /\ \E r \in NoteClasses, offset \in KeyOffsets :
          keys = [root |-> r, offset |-> offset, minor |-> None,
                  major |-> None, equivalent |-> None]

notkeys ==
    <<song, result, cursor, iter, phase, events, hist, conv, multi, driver,
      control,
      midi, rt>>

\* NoteKey::minor(r)
KeyMinor ==
    /\ keys.minor = None
    /\ keys' = [keys EXCEPT !.minor = Some(NoteKey_minor(keys.root))]
    /\ UNCHANGED notkeys

\* NoteKey::major(r.shift(offset))
KeyMajorOfShift ==
    /\ keys.major = None
    /\ keys' = [keys EXCEPT
                  !.major = Some(NoteKey_major(shift(keys.root, keys.offset)))]
    /\ UNCHANGED notkeys

\* minor.equivalent(&major)
KeyEquivalent ==
    /\ IsSome(keys.minor)
    /\ IsSome(keys.major)
    /\ keys.equivalent = None
    /\ keys' = [keys EXCEPT
                  !.equivalent = Some(NoteKey_equivalent(Unwrap(keys.minor),
                                                         Unwrap(keys.major)))]
    /\ UNCHANGED notkeys

KeyNext == KeyMinor \/ KeyMajorOfShift \/ KeyEquivalent

KeySpec == KeyInit /\ [][KeyNext]_vars

\* C30 as the spec states it: for every root class r, NoteKey::minor(r) holds
\* exactly the classes of NoteKey::major(r.shift(-3)), and minor(r).root() = r
C30_MinorOfMajorDown3 ==
    keys # <<>> =>
        /\ IsSome(keys.minor) => NoteKey_root(Unwrap(keys.minor)) = keys.root
        /\ (IsSome(keys.equivalent) /\ keys.offset = 0 - 3) =>
               Unwrap(keys.equivalent)

\* C30 amended: for every root class r, NoteKey::minor(r) reports root r and
\* holds seven classes, and it is equivalent to NoteKey::major(r.shift(k))
\* exactly when k is 3 modulo 12: the relative major lies three semitones
\* above the minor root (a_minor and c_major in tests::test_key), not below
C30_MinorOfMajorUp3 ==
    keys # <<>> =>
        /\ IsSome(keys.minor) =>
               /\ NoteKey_root(Unwrap(keys.minor)) = keys.root
               /\ NoteKey_len(Unwrap(keys.minor)) = 7
        /\ IsSome(keys.equivalent) =>
               (Unwrap(keys.equivalent) <=> (keys.offset - 3) % 12 = 0)

\* minor(A) was compared with major(A.shift(3)) = major(C) and found
\* equivalent
C30_Witness ==
    /\ keys # <<>>
    /\ keys.root = 9
    /\ keys.offset = 3
    /\ keys.equivalent = Some(TRUE)
    /\ Unwrap(keys.major).root = 0

(***************************************************************************)
(* src/src/midi.rs, src/src/midi/notes.rs : note messages and their bytes  *)
(***************************************************************************)
\* u8 masks: b & 0xF0, b & 0x0F and b & 0x80
and_F0(b) == b - (b % 16)
and_0F(b) == b % 16
and_80(b) == IF b % 256 >= 128 THEN 128 ELSE 0

\* NoteEventTag::Off and NoteEventTag::On
NoteEventTag_Off == 128
NoteEventTag_On == 144

\* MidiMessage::from(NoteOff::new(channel, note, vel))
NoteOff(channel, note, vel) ==
    [kind |-> "NoteOff", channel |-> channel, note |-> note, velocity |-> vel]

\* MidiMessage::Other(RawMessage { bytes })
Other(bytes) == [kind |-> "Other", bytes |-> bytes]

\* NoteEventPayload::as_bytes : the channel of a MidiChannel is below 16, so
\* that the | with the masked tag adds it
NoteEventPayload_as_bytes(m, tag) ==
    <<and_F0(tag) + m.channel, m.note, m.velocity>>

NoteOn_as_bytes(m) == NoteEventPayload_as_bytes(m, NoteEventTag_On)
NoteOff_as_bytes(m) == NoteEventPayload_as_bytes(m, NoteEventTag_Off)

\* MidiMessage::as_raw, the bytes of the RawMessage
MidiMessage_as_raw(m) ==
    CASE m.kind = "Other" -> m.bytes
      [] m.kind = "NoteOff" -> NoteOff_as_bytes(m)
      [] m.kind = "NoteOn" -> NoteOn_as_bytes(m)

\* RawMessage::len
RawMessage_len(bytes) ==
    IF and_80(bytes[1]) = 0 THEN 0
    ELSE IF and_80(bytes[2]) # 0 THEN 1
    ELSE IF and_80(bytes[3]) # 0 THEN 2
    ELSE 3

\* Result of the parse functions
ParseOk(v) == [ok |-> TRUE, val |-> v, err |-> NoError]
ParseErr(e) == [ok |-> FALSE, val |-> <<>>, err |-> e]
WrongTag(expected, actual) ==
    [kind |-> "WrongTag", expected |-> expected, actual |-> actual]
OutOfRange(found) == [kind |-> "OutOfRange", found |-> found, min |-> 0, max |-> 127]

\* parse_tag_expected
parse_tag_expected(byte, expected) ==
    LET head == and_F0(byte)
    IN  IF head # expected THEN ParseErr(WrongTag(expected, head))
        ELSE ParseOk(expected)

\* the channel taken from the high nibble
parse_channel_high(raw) == ParseOk((raw \div 16) % 16)

\* parse_channel
parse_channel(raw) == ParseOk(and_0F(raw))

\* parse_note, with MidiNote::from_raw
parse_note(raw) == IF raw >= 128 THEN ParseErr(OutOfRange(raw)) ELSE ParseOk(raw)

\* parse_vel, with PressVelocity::from_raw
parse_vel(raw) == IF raw > 127 THEN ParseErr(OutOfRange(raw)) ELSE ParseOk(raw)

\* parse_noteevent : the payload as the message `make` builds from it
parse_noteevent(bytes, make(_, _, _)) ==
    LET channel == parse_channel(bytes[1])
        note == parse_note(bytes[2])
        velocity == parse_vel(bytes[3])
    IN  IF ~channel.ok THEN channel
        ELSE IF ~note.ok THEN note
        ELSE IF ~velocity.ok THEN velocity
        ELSE ParseOk(make(channel.val, note.val, velocity.val))

\* parse_noteon
parse_noteon(bytes) ==
    LET tag == parse_tag_expected(bytes[1], NoteEventTag_On)
    IN  IF ~tag.ok THEN tag ELSE parse_noteevent(bytes, NoteOn)

\* parse_noteoff
parse_noteoff(bytes) ==
    LET tag == parse_tag_expected(bytes[1], NoteEventTag_Off)
    IN  IF ~tag.ok THEN tag ELSE parse_noteevent(bytes, NoteOff)

\* parse_midimessage
parse_midimessage(bytes) ==
    LET noteon_res == parse_noteon(bytes)
        noteoff_res == parse_noteoff(bytes)
    IN  IF noteon_res.ok THEN noteon_res
        ELSE IF noteon_res.err.kind # "WrongTag" THEN noteon_res
        ELSE IF noteoff_res.ok THEN noteoff_res
        ELSE IF noteoff_res.err.kind # "WrongTag" THEN noteoff_res
        ELSE ParseOk(Other(bytes))

\* every MidiChannel and MidiNote, and the velocities at the ends and in the
\* middle of PressVelocity's range
MidiChannels == 0 .. 15
MidiNotes == 0 .. 127
MidiVelocities == {0, 1, 64, 127}
NoteMessages ==
    {NoteOn(c, n, v) : c \in MidiChannels, n \in MidiNotes, v \in MidiVelocities}
    \cup
    {NoteOff(c, n, v) : c \in MidiChannels, n \in MidiNotes, v \in MidiVelocities}

\* midi: a NoteOn or NoteOff, then its as_raw bytes, their len and what
\* parse_midimessage makes of them, each None until it is computed
MidiInit ==
    /\ song = <<>>
    /\ result = NoResult
    /\ cursor = None
    /\ iter = None
    /\ phase = "idle"
    /\ events = <<>>
    /\ hist = Hist0
    /\ conv = <<>>
    /\ multi = <<>>
    /\ driver = <<>>
    /\ control = <<>>
    /\ keys = <<>>
    /\ rt = <<>>
    /\ \E m \in NoteMessages :
          midi = [msg |-> m, raw |-> None, len |-> None, parsed |-> None]

notmidi ==
    <<song, result, cursor, iter, phase, events, hist, conv, multi, driver,
      control, keys, rt>>

\* msg.as_raw()
MidiAsRaw ==
    /\ midi.raw = None
    /\ midi' = [midi EXCEPT !.raw = Some(MidiMessage_as_raw(midi.msg))]
    /\ UNCHANGED notmidi

\* raw.len()
MidiLen ==
    /\ IsSome(midi.raw)
    /\ midi.len = None
    /\ midi' = [midi EXCEPT !.len = Some(RawMessage_len(Unwrap(midi.raw)))]
    /\ UNCHANGED notmidi

\* parse_midimessage(bytes)
MidiParse ==
    /\ IsSome(midi.raw)
    /\ midi.parsed = None
    /\ midi' = [midi EXCEPT !.parsed = Some(parse_midimessage(Unwrap(midi.raw)))]
    /\ UNCHANGED notmidi

MidiNext == MidiAsRaw \/ MidiLen \/ MidiParse

MidiSpec == MidiInit /\ [][MidiNext]_vars

\* C31: a NoteOn serializes to [0x90 | channel, note, velocity] and a NoteOff
\* to [0x80 | channel, note, velocity], the serialized message has length 3,
\* and parse_midimessage of the three bytes returns the original message
C31_NoteBytesRoundTrip ==
    midi # <<>> =>
        /\ IsSome(midi.raw) =>
               Unwrap(midi.raw) =
                   <<(IF midi.msg.kind = "NoteOn" THEN 144 ELSE 128)
                         + midi.msg.channel,
                     midi.msg.note, midi.msg.velocity>>
        /\ IsSome(midi.len) => Unwrap(midi.len) = 3
        /\ IsSome(midi.parsed) =>
               /\ Unwrap(midi.parsed).ok
               /\ Unwrap(midi.parsed).val = midi.msg

\* a NoteOff on the last channel with the highest note and velocity was
\* serialized and parsed back
C31_Witness ==
    /\ midi # <<>>
    /\ midi.msg = NoteOff(15, 127, 127)
    /\ midi.raw = Some(<<143, 127, 127>>)
    /\ midi.len = Some(3)
    /\ IsSome(midi.parsed)
    /\ Unwrap(midi.parsed).val = midi.msg

(***************************************************************************)
(* src/src/model.rs : NoteKey::nth over positive and negative steps        *)
(***************************************************************************)
\* the steps of tests::test_key: -2 * len .. 2 * len - 1 for a key of 7
MaxStep == 14
KeySteps == (0 - MaxStep) .. (MaxStep - 1)

\* keys: a root class r and a step k, then major(r.shift(3)).nth(k),
\* minor(r).nth(k + 2) and the same two with the step reduced to 0 .. 6, each
\* None until it is computed
NthInit ==
    /\ song = <<>>
    /\ result = NoResult
    /\ cursor = None
    /\ iter = None
    /\ phase = "idle"
    /\ events = <<>>
    /\ hist = Hist0
    /\ conv = <<>>
    /\ multi = <<>>
    /\ driver = <<>>
    /\ control = <<>>
    /\ midi = <<>>
    /\ rt = <<>>
    /\ \E r \in NoteClasses, k \in KeySteps :
          keys = [root |-> r, k |-> k, major_nth |-> None, minor_nth |-> None,
                  major_low |-> None, minor_low |-> None]

\* NoteKey::major(r.shift(3)).nth(k)
NthMajor ==
    /\ keys.major_nth = None
    /\ keys' = [keys EXCEPT !.major_nth =
                   Some(NoteKey_nth(NoteKey_major(shift(keys.root, 3)), keys.k))]
    /\ UNCHANGED notkeys

\* NoteKey::minor(r).nth(k + 2)
NthMinor ==
    /\ keys.minor_nth = None
    /\ keys' = [keys EXCEPT !.minor_nth =
                   Some(NoteKey_nth(NoteKey_minor(keys.root), keys.k + 2))]
    /\ UNCHANGED notkeys

\* NoteKey::major(r.shift(3)).nth(k mod 7)
NthMajorLow ==
    /\ keys.major_low = None
    /\ keys' = [keys EXCEPT !.major_low =
                   Some(NoteKey_nth(NoteKey_major(shift(keys.root, 3)),
                                    keys.k % 7))]
    /\ UNCHANGED notkeys

\* NoteKey::minor(r).nth((k + 2) mod 7)
NthMinorLow ==
    /\ keys.minor_low = None
    /\ keys' = [keys EXCEPT !.minor_low =
                   Some(NoteKey_nth(NoteKey_minor(keys.root), (keys.k + 2) % 7))]
    /\ UNCHANGED notkeys

NthNext == NthMajor \/ NthMinor \/ NthMajorLow \/ NthMinorLow

NthSpec == NthInit /\ [][NthNext]_vars

\* C32: NoteKey::nth(k) depends only on k modulo the key length 7, also for
\* negative k (nth(0) = nth(7) = nth(-7) = root), and for every root r and
\* step k of -14 .. 13, major(r.shift(3)).nth(k) = minor(r).nth(k + 2)
C32_NthModuloAndRelative ==
    keys # <<>> =>
        /\ (IsSome(keys.major_nth) /\ IsSome(keys.major_low)) =>
               keys.major_nth = keys.major_low
        /\ (IsSome(keys.minor_nth) /\ IsSome(keys.minor_low)) =>
               keys.minor_nth = keys.minor_low
        /\ (IsSome(keys.major_nth) /\ keys.k \in {0 - 7, 0, 7}) =>
               Unwrap(keys.major_nth) = shift(keys.root, 3)
        /\ (IsSome(keys.minor_nth) /\ keys.k + 2 \in {0 - 7, 0, 7}) =>
               Unwrap(keys.minor_nth) = keys.root
        /\ (IsSome(keys.major_nth) /\ IsSome(keys.minor_nth)) =>
               keys.major_nth = keys.minor_nth

\* c_major.nth(-1) and a_minor.nth(1) were both computed and both are B
C32_Witness ==
    /\ keys # <<>>
    /\ keys.root = 9
    /\ keys.k = 0 - 1
    /\ keys.major_nth = Some(11)
    /\ keys.minor_nth = Some(11)
    /\ keys.major_low = Some(11)

(***************************************************************************)
(* src/src/track/instructions.rs : the documentation of TrackEvent::Jump   *)
(***************************************************************************)
\* C33: a Jump with count Some(n) falls through to ip + 1 on the n-th,
\* 2n-th, 3n-th ... reach counted since new() or reset(), and jumps to its
\* target on every other reach
C33_NopEveryN ==
    (HasCursor /\ hist.op = "step" /\ hist.jumped >= 0) =>
       LET i == hist.jumped
           evt == cur.data[i + 1]
       IN  IsSome(evt.count) =>
               LET n == Unwrap(evt.count)
                   r == hist.reaches[i]
               IN  r < MaxReach =>
                      IF r % n = 0
                      THEN cur.instruction_pointer = i + 1
                      ELSE cur.instruction_pointer = evt.target

(***************************************************************************)
(* src/src/songlang/compiler.rs : the ways compile_song can end            *)
(***************************************************************************)
\* the variants of CompilerError
CompilerErrors ==
    {"LabelNotFound", "DuplicateLabel", "AttributeOutsideHeader",
     "DuplicateAttributes"}

\* programs without a press line compile to Ok or to one of the four errors:
\* the only abort is the todo!() of resolve_tickspans
NoPressNoAbort ==
    (Compiled /\ result.cs.tick_spans = <<>>) =>
        \/ result.status = "Ok"
        \/ result.status = "Err" /\ result.err.kind \in CompilerErrors

\* C34: for every program, press lines included, compile_song returns Ok or
\* one of LabelNotFound, DuplicateLabel, AttributeOutsideHeader and
\* DuplicateAttributes, and never aborts in another way
C34_CompileSongTotal ==
    Compiled =>
        \/ result.status = "Ok"
        \/ result.status = "Err" /\ result.err.kind \in CompilerErrors

(***************************************************************************)
(* src/src/track/cursor.rs : the tick counter and the clock as sums        *)
(***************************************************************************)
\* while the waits executed add up to at most u16::max_value() ticks the
\* counter and the clock are the sums, and no step overflows
TicksExactWithinU16 ==
    (cursor # None /\ hist.waited_ticks <= U16_MAX) =>
        /\ cur.cur_ticks = hist.waited_ticks
        /\ cur.cur_time = hist.waited_nanos

\* C35: in every reachable cursor state tick_count is the sum of
\* w.as_ticks(bpm in force) over the Waits executed since construction or the
\* last reset and clock_time the sum of w.as_duration(bpm), also when the
\* playback has waited for more than 65535 ticks
C35_TicksAndClockAreSums ==
    /\ ~(phase = "panicked" /\ hist.err.kind = "Overflow")
    /\ cursor # None =>
          /\ cur.cur_ticks = hist.waited_ticks
          /\ cur.cur_time = hist.waited_nanos

(***************************************************************************)
(* src/src/track/cursor.rs : the errors of step()                          *)
(***************************************************************************)
\* tracks as a caller may hand them to TrackCursor::new, not only compiled
\* ones: without End, with jumps past the end
MaxRawLen == 3
\* step() is called while the tick counter is below this
MaxStepTicks == 2
RawItems ==
    {SendMessage(C4On, 0), Wait(Ticks(1)), End,
     Jump(0, None), Jump(MaxRawLen, None),
     Jump(0, Some(1)), Jump(2, Some(2)), Jump(MaxRawLen, Some(1))}
RawTracks == UNION {[1 .. k -> RawItems] : k \in 1 .. MaxRawLen}

\* TrackCursor::new(data) for a TrackData: EventTrack. finite_jumps is a
\* method of the trait that an implementation may override: the counters
\* the cursor starts with are those of any subset of the counted jumps
StepCursorsOn(t) ==
    {[TrackCursor_new(t) EXCEPT
         !.jump_counts.data = [idx \in D |-> finite_jumps(t)[idx]]] :
        D \in SUBSET (DOMAIN finite_jumps(t))}
StepCursors == UNION {StepCursorsOn(t) : t \in RawTracks}

StepInit ==
    /\ song = <<>>
    /\ result = NoResult
    /\ cursor \in {Some(c) : c \in StepCursors}
    /\ iter = None
    /\ phase = "idle"
    /\ events = <<>>
    /\ hist = Hist0
    /\ NoOthers

\* one call of step(); step_until unwraps its result, so an Err ends the run
StepOnce ==
    /\ phase = "idle"
    /\ cur.cur_ticks < MaxStepTicks
    /\ \E overflow_checks \in BOOLEAN :
          LET res == step(cur, overflow_checks) IN
          /\ cursor' = Some(res.c)
          /\ phase' = IF res.ok THEN "idle" ELSE "panicked"
          /\ hist' = [hist EXCEPT !.op = IF res.ok THEN "step" ELSE "panic",
                                  !.err = res.err]
    /\ UNCHANGED <<song, result, iter, events, others>>

StepNext == StepOnce

StepSpec == StepInit /\ [][StepNext]_vars

\* C36: step() fails with BadInstrPointer exactly when ip is outside the
\* track, with BadJumpTarget exactly when the current instruction is a Jump,
\* counted or not, whose target exceeds track length - 1, and with
\* JumpIdxNotFound exactly when it is an in-range counted Jump whose index
\* has no entry in jump_counts; a failing step leaves ip, clock_time,
\* tick_count, bpm and every jump counter as they were
C36_StepErrors ==
    [][LET c == cur
           ip == c.instruction_pointer
           len == Len(c.data)
           inside == ip < len
           evt == c.data[ip + 1]
           isJump == inside /\ evt.op = "Jump"
           badTarget == isJump /\ evt.target > len - 1
           noEntry == /\ isJump
                      /\ ~badTarget
                      /\ IsSome(evt.count)
                      /\ ip \notin DOMAIN c.jump_counts.data
           failed == phase' = "panicked"
       IN  /\ (failed /\ hist'.err.kind = "BadInstrPointer") <=> ~inside
           /\ (failed /\ hist'.err.kind = "BadJumpTarget") <=> badTarget
           /\ (failed /\ hist'.err.kind = "JumpIdxNotFound") <=> noEntry
           /\ failed <=> (~inside \/ badTarget \/ noEntry)
           /\ failed => cursor' = cursor]_vars

\* after a wait, a counted jump with its entry present failed with
\* BadJumpTarget and the cursor still stands on it with the clock advanced
C36_Witness ==
    /\ phase = "panicked"
    /\ hist.err.kind = "BadJumpTarget"
    /\ cur.instruction_pointer = 1
    /\ cur.cur_ticks = 1
    /\ cur.data[2] = Jump(MaxRawLen, Some(1))
    /\ 1 \in DOMAIN cur.jump_counts.data

(***************************************************************************)
(* src/src/songlang/compiler.rs, src/src/track/cursor.rs : nested loops    *)
(***************************************************************************)
\* the repetitions of the outer and of the inner loop of a nested program
OuterReps == Unwrap(song[1].repititions)
InnerReps == Unwrap(song[1].expr[1].repititions)

\* C37: the track compiled from Loop(a) { Loop(b) { send; wait } } with
\* a, b >= 2 makes a fresh cursor yield exactly a * b messages once it has
\* run to End, never more on the way, and in every state the residual of
\* each counted jump lies between 0 and the jump's starting count
C37_NestedLoops ==
    /\ Compiled => result.status = "Ok"
    /\ cursor # None =>
          /\ hist.sent <= OuterReps * InnerReps
          /\ AtEnd => hist.sent = OuterReps * InnerReps
          /\ \A idx \in DOMAIN cur.jump_counts.data :
                /\ cur.jump_counts.data[idx] >= 0
                /\ cur.jump_counts.data[idx] <= Unwrap(cur.data[idx + 1].count)

\* three passes of an inner loop of three passes ran to End over two calls
\* of step_until and yielded nine messages
C37_Witness ==
    /\ cursor # None
    /\ phase = "idle"
    /\ AtEnd
    /\ OuterReps = 3
    /\ InnerReps = 3
    /\ hist.sent = 9
    /\ hist.sorted
    /\ hist.last_end = (MaxNest * MaxNest + 1) * TickNanos
    /\ Len(events) > 2
    /\ events[1].end = 2 * TickNanos

(***************************************************************************)
(* src/src/track/multicursor.rs : the wrapped cursors are independent      *)
(***************************************************************************)
\* C38: over any sequence of fully consumed step_until(end) calls and
\* reset() calls, the wrapped cursor at index i is in the state of a
\* standalone cursor on track i given the same calls and the events tagged
\* i are exactly the events that cursor yields; after a step_until(end)
\* every wrapped cursor stands on End or has clock_time > end; after
\* reset() every wrapped cursor equals a fresh one
C38_CursorsIndependent ==
    multi # <<>> =>
       /\ multi.cursors = multi.alone
       /\ multi.op = "step_until" =>
             /\ \A i \in 1 .. Len(multi.cursors) :
                   /\ OfTrack(multi.out, i - 1) = multi.alone_out[i]
                   /\ \/ OnEnd(multi.cursors[i])
                      \/ multi.cursors[i].cur_time > multi.end
             /\ \A p \in 1 .. Len(multi.out) :
                   multi.out[p].port[1] \in 0 .. Len(multi.cursors) - 1
       /\ multi.op = "reset" =>
             /\ multi.out = <<>>
             /\ \A i \in 1 .. Len(multi.cursors) :
                   multi.cursors[i] = TrackCursor_new(multi.cursors[i].data)

\* a call on two loops of different pace that had both played before: the
\* slower one is three ticks in, the faster one yields alone in this call
C38_Witness ==
    /\ multi # <<>>
    /\ multi.op = "step_until"
    /\ Len(multi.cursors) = 2
    /\ multi.cursors[1].data = TrackLoop3
    /\ multi.cursors[2].data = TrackLoop1
    /\ multi.before[1].cur_time = 3 * TickNanos
    /\ multi.before[2].cur_time = TickNanos
    /\ multi.end = 2 * TickNanos
    /\ OfTrack(multi.out, 0) = <<>>
    /\ Len(OfTrack(multi.out, 1)) = 2

(***************************************************************************)
(* src/src/track.rs, src/src/main.rs : messages on the way to the window   *)
(***************************************************************************)
\* a cycle whose window starts where the window of the cycle before ended
\* discards nothing
NoGapNoDrop ==
    (Cycled /\ (driver.cycles = 1
                  \/ driver.cycle.cur_usecs = driver.previous.nxt_usecs)) =>
        driver.cycle.dropped = 0

\* C39: events_in_range(start, end) yields every SendMessage the cursor
\* executes, also in a cycle whose start is later than the cursor's clock
\* because the host skipped frames: no message is discarded
C39_NoMessageDiscarded ==
    Cycled => driver.cycle.dropped = 0

(***************************************************************************)
(* src/src/malloc.rs : the allocation sentinel                             *)
(***************************************************************************)
\* enum FailAction, #[repr(u8)]
FailAction_Panic == 0
FailAction_Nothing == 1
FailActions == {FailAction_Panic, FailAction_Nothing}

\* ThreadStatus::new()
ThreadStatus_new == [is_rt |-> FALSE, atomic_action |-> 0]

\* ThreadStatus::set_rt, unset_rt, is_rt, set_action, action
ThreadStatus_set_rt(s) == [s EXCEPT !.is_rt = TRUE]
ThreadStatus_unset_rt(s) == [s EXCEPT !.is_rt = FALSE]
ThreadStatus_is_rt(s) == s.is_rt
ThreadStatus_set_action(s, action) == [s EXCEPT !.atomic_action = action]
ThreadStatus_action(s) == s.atomic_action

\* the threads of the process
MaxThreads == 2
Threads == 1 .. MaxThreads

\* static RT_FLAG shared by every thread
RT_FLAG_static(thread) == CHOOSE t \in Threads : \A u \in Threads : t <= u

\* thread_local! RT_FLAG: the ThreadStatus the calling thread sees
RT_FLAG(thread) == thread

\* DebugRtAllocator::assert_not_rt on the caller's ThreadStatus: the status
\* it leaves and whether it panicked
assert_not_rt(s) ==
    IF ThreadStatus_is_rt(s) /\ ThreadStatus_action(s) = FailAction_Panic
    THEN [status |-> ThreadStatus_unset_rt(s), panicked |-> TRUE]
    ELSE [status |-> s, panicked |-> FALSE]

\* the four entries of impl GlobalAlloc, each of which starts with
\* assert_not_rt
AllocOps == {"alloc", "dealloc", "realloc", "alloc_zeroed"}

\* the calls one run makes
MaxRtOps == 5

NoRtOp ==
    [thread |-> 0, op |-> "none", outcome |-> "none", is_rt |-> FALSE,
     was_marked |-> FALSE]

\* flag: the ThreadStatus behind each RT_FLAG; alive: the threads still
\* running; marked, chosen (history): whether each thread's last call of
\* set_rt/unset_rt was set_rt and no allocation of it panicked since, and
\* the action it last set; last (history): the last call, is_rt of its
\* thread when it returned or panicked, and marked of its thread before it
RtInit ==
    /\ song = <<>>
    /\ result = NoResult
    /\ cursor = None
    /\ iter = None
    /\ phase = "idle"
    /\ events = <<>>
    /\ hist = Hist0
    /\ conv = <<>>
    /\ multi = <<>>
    /\ driver = <<>>
    /\ control = <<>>
    /\ keys = <<>>
    /\ midi = <<>>
    /\ rt = [flag |-> [t \in Threads |-> ThreadStatus_new],
             alive |-> [t \in Threads |-> TRUE],
             marked |-> [t \in Threads |-> FALSE],
             chosen |-> [t \in Threads |-> FailAction_Panic],
             ops |-> 0,
             last |-> NoRtOp]

notrt ==
    <<song, result, cursor, iter, phase, events, hist, conv, multi, driver,
      control, keys, midi>>

RtCanCall(t) == rt.alive[t] /\ rt.ops < MaxRtOps

RtDone(t, op, outcome, flag) ==
    [thread |-> t, op |-> op, outcome |-> outcome,
     is_rt |-> ThreadStatus_is_rt(flag[RT_FLAG(t)]),
     was_marked |-> rt.marked[t]]

\* MYALLOC.set_rt() on thread t
RtSetRt(t) ==
    /\ RtCanCall(t)
    /\ rt' = [rt EXCEPT
                !.flag[RT_FLAG(t)] = ThreadStatus_set_rt(@),
                !.marked[t] = TRUE,
                !.ops = @ + 1,
                !.last = RtDone(t, "set_rt", "ok",
                                [rt.flag EXCEPT ![RT_FLAG(t)] = ThreadStatus_set_rt(@)])]
    /\ UNCHANGED notrt

\* MYALLOC.unset_rt() on thread t
RtUnsetRt(t) ==
    /\ RtCanCall(t)
    /\ rt' = [rt EXCEPT
                !.flag[RT_FLAG(t)] = ThreadStatus_unset_rt(@),
                !.marked[t] = FALSE,
                !.ops = @ + 1,
                !.last = RtDone(t, "unset_rt", "ok",
                                [rt.flag EXCEPT ![RT_FLAG(t)] = ThreadStatus_unset_rt(@)])]
    /\ UNCHANGED notrt

\* MYALLOC.set_action(action) on thread t
RtSetAction(t) ==
    /\ RtCanCall(t)
    /\ \E action \in FailActions :
          rt' = [rt EXCEPT
                   !.flag[RT_FLAG(t)] = ThreadStatus_set_action(@, action),
                   !.chosen[t] = action,
                   !.ops = @ + 1,
                   !.last = RtDone(t, "set_action", "ok", rt.flag)]
    /\ UNCHANGED notrt

\* an allocation on thread t that assert_not_rt lets through to System
RtAllocOk(t) ==
    /\ RtCanCall(t)
    /\ ~assert_not_rt(rt.flag[RT_FLAG(t)]).panicked
    /\ \E op \in AllocOps :
          rt' = [rt EXCEPT
                   !.ops = @ + 1,
                   !.last = RtDone(t, op, "ok", rt.flag)]
    /\ UNCHANGED notrt

\* an allocation on thread t in which assert_not_rt panics.  A panic that
\* leaves a GlobalAlloc method is undefined behaviour: the build either
\* unwinds the thread (its join() is Err) or aborts the process
RtAllocPanic(t) ==
    /\ RtCanCall(t)
    /\ assert_not_rt(rt.flag[RT_FLAG(t)]).panicked
    /\ \E op \in AllocOps, fate \in {"unwind", "abort"} :
          rt' = [rt EXCEPT
                   !.flag[RT_FLAG(t)] = assert_not_rt(@).status,
                   !.alive = IF fate = "unwind"
                             THEN [@ EXCEPT ![t] = FALSE]
                             ELSE [u \in Threads |-> FALSE],
                   !.marked[t] = FALSE,
                   !.ops = @ + 1,
                   !.last = RtDone(t, op, "panic",
                                   [rt.flag EXCEPT ![RT_FLAG(t)] = assert_not_rt(@).status])]
    /\ UNCHANGED notrt

RtNext ==
    \/ \E t \in Threads : RtSetRt(t)
    \/ \E t \in Threads : RtUnsetRt(t)
    \/ \E t \in Threads : RtSetAction(t)
    \/ \E t \in Threads : RtAllocOk(t)
    \/ \E t \in Threads : RtAllocPanic(t)

RtSpec == RtInit /\ [][RtNext]_vars

\* C40: the sentinel is per thread.  An allocation panics exactly when its
\* own thread called set_rt() after its last unset_rt() and its action is
\* Panic, and the RT mark of the thread is cleared when it panics; every
\* other allocation succeeds, whatever the other threads have set: before
\* set_rt(), after unset_rt(), next to an RT-marked thread, and on an
\* RT-marked thread whose action is Nothing
C40_SentinelPerThread ==
    /\ \A t \in Threads :
          /\ ThreadStatus_is_rt(rt.flag[RT_FLAG(t)]) = rt.marked[t]
          /\ ThreadStatus_action(rt.flag[RT_FLAG(t)]) = rt.chosen[t]
    /\ rt.last.op \in AllocOps =>
          /\ rt.last.outcome = "panic" =>
                /\ rt.last.was_marked
                /\ rt.chosen[rt.last.thread] = FailAction_Panic
                /\ ~rt.last.is_rt
                /\ ~rt.alive[rt.last.thread]
          /\ rt.last.outcome = "ok" =>
                /\ rt.last.was_marked = rt.marked[rt.last.thread]
                /\ ~(rt.marked[rt.last.thread]
                       /\ rt.chosen[rt.last.thread] = FailAction_Panic)
                /\ rt.last.is_rt = rt.marked[rt.last.thread]
          /\ rt.last.outcome \in {"ok", "panic"}

\* a thread panicked in an allocation and unwound, and after it another
\* thread allocated successfully next to a third party's mark: here the
\* other thread is RT-marked with the action Nothing
C40_Witness ==
    /\ rt.last.op \in AllocOps
    /\ rt.last.outcome = "ok"
    /\ rt.marked[rt.last.thread]
    /\ rt.chosen[rt.last.thread] = FailAction_Nothing
    /\ \E u \in Threads : u # rt.last.thread /\ ~rt.alive[u]

====
